---- MODULE Spec2Model ----
(***************************************************************************)
(* Format selection and normalisation engine of fetchtiumv2.               *)
(*                                                                         *)
(* Two implementations live in the repository and both are modelled:       *)
(*   api/extract.py            (names prefixed extract_)                   *)
(*   api/services/formats.py   (names prefixed formats_)                   *)
(* A format (a Python dict) is a TLA+ record whose DOMAIN is the set of    *)
(* keys present in the dict; dict.get(k, d) is Get(fmt, k, d).             *)
(***************************************************************************)
EXTENDS Integers, Sequences, FiniteSets, TLC

VARIABLES
    formats,                \* the caller's raw format list
    target_heights,         \* parameter target_heights
    height_tolerance,       \* parameter height_tolerance, in percent (0.1 is 10)
    max_progressive_height, \* parameter max_progressive_height
    include_hls,            \* parameter include_hls
    target_bitrate,         \* parameter target_bitrate
    pc,                     \* "start", or the name of the function that returned
    out,                    \* the returned value: the lists [video, audio, hls]
    module_state,           \* the module-level objects of api/services/formats.py
    calls,                  \* the invocations made so far, in order
    request,                \* the input of a service or route: URLs, HTTP request
    tasks                   \* the worker tasks of the resolver's thread pool

vars == <<formats, target_heights, height_tolerance, max_progressive_height,
          include_hls, target_bitrate, pc, out, module_state, calls, request, tasks>>

-----------------------------------------------------------------------------
(* Bounds of the model. *)

\* longest list of malformed formats drawn
MaxMalformed == 2
\* most invocations in one session of the process
MaxCalls == 3
\* longest URL list given to the resolver
MaxUrls == 3
\* most entries of an album, most results of a gallery
MaxEntries == 2

\* longest video format list drawn
MaxFormats == 3
\* longest audio format list drawn
MaxAudio == 3

-----------------------------------------------------------------------------
(* Python helpers. *)

\* Python's None as the value of a text field (vcodec, acodec, ext,
\* format_note); an f-string renders it as the text "None"
None == "None"
\* Python's None as the value of a numeric field (height, width, fps, abr): an
\* integer no format carries; arithmetic on it raises TypeError, see the
\* *_raises operators
NoneInt == -1
\* truth value of a numeric field value (0 and None are falsy)
TruthyInt(x) == x # 0 /\ x # NoneInt
\* truth value of a text field value ('' and None are falsy)
TruthyStr(x) == x # "" /\ x # None

\* dict.get(key, default)
Get(d, k, default) == IF k \in DOMAIN d THEN d[k] ELSE default

\* abs()
Abs(n) == IF n < 0 THEN -n ELSE n

\* [f(x) for x in s]
Map(s, F(_)) == [i \in 1..Len(s) |-> F(s[i])]

\* tuple comparison of Python: lexicographic order on equal-length int tuples
RECURSIVE LexLess(_, _)
LexLess(a, b) ==
    IF a = <<>> \/ b = <<>> THEN FALSE
    ELSE IF Head(a) # Head(b) THEN Head(a) < Head(b)
    ELSE LexLess(Tail(a), Tail(b))

\* where a stable ascending sort puts x in an already sorted list of
\* [key, val] entries: after every entry whose key is not greater
RECURSIVE InsertStable(_, _)
InsertStable(sorted, x) ==
    IF sorted = <<>> THEN <<x>>
    ELSE IF LexLess(x.key, Head(sorted).key) THEN <<x>> \o sorted
    ELSE <<Head(sorted)>> \o InsertStable(Tail(sorted), x)

RECURSIVE StableSortKeyed(_)
StableSortKeyed(s) ==
    IF s = <<>> THEN <<>>
    ELSE InsertStable(StableSortKeyed(SubSeq(s, 1, Len(s) - 1)), s[Len(s)])

\* list.sort(key=Key) / sorted(s, key=Key): stable, ascending, Key a tuple
SortedBy(s, Key(_)) ==
    LET keyed == [i \in 1..Len(s) |-> [key |-> Key(s[i]), val |-> s[i]]]
        done  == StableSortKeyed(keyed)
    IN  [i \in 1..Len(s) |-> done[i].val]

\* the characters of the codec tokens and URLs the model draws (a Python str
\* is a sequence of characters; TLC's strings cannot be indexed)
Chars(token) ==
    CASE token = "avc1" -> <<"a", "v", "c", "1">>
      [] token = "vp9"  -> <<"v", "p", "9">>
      [] token = "mp4a" -> <<"m", "p", "4", "a">>
      [] token = "opus" -> <<"o", "p", "u", "s">>
      [] token = "mp3"  -> <<"m", "p", "3">>
      [] token = "pcm"  -> <<"p", "c", "m">>
      [] token = "none" -> <<"n", "o", "n", "e">>
      [] token = "v.mp4"  -> <<"v", ".", "m", "p", "4">>
      [] token = "a.m4a"  -> <<"a", ".", "m", "4", "a">>
      [] token = "v.m3u8" -> <<"v", ".", "m", "3", "u", "8">>
      [] token = "https"  -> <<"h", "t", "t", "p", "s">>
      [] token = "example.com/video.mp4" ->
            <<"e", "x", "a", "m", "p", "l", "e", ".", "c", "o", "m", "/", "v", "i", "d", "e", "o", ".", "m", "p", "4">>
      [] token = "rule34video.com/get_file/1" ->
            <<"r", "u", "l", "e", "3", "4", "v", "i", "d", "e", "o", ".", "c", "o", "m", "/", "g", "e", "t", "_", "f", "i", "l", "e", "/", "1">>
      [] token = "eporner.com/v/redirect" ->
            <<"e", "p", "o", "r", "n", "e", "r", ".", "c", "o", "m", "/", "v", "/", "r", "e", "d", "i", "r", "e", "c", "t">>
      [] token = "cdn.example/1.mp4?download=1" ->
            <<"c", "d", "n", ".", "e", "x", "a", "m", "p", "l", "e", "/", "1", ".", "m", "p", "4", "?", "d", "o", "w", "n", "l", "o", "a", "d", "=", "1">>
      [] token = "cdn.example/1.mp4" ->
            <<"c", "d", "n", ".", "e", "x", "a", "m", "p", "l", "e", "/", "1", ".", "m", "p", "4">>
      [] token = "cdn.example/2.mp4" ->
            <<"c", "d", "n", ".", "e", "x", "a", "m", "p", "l", "e", "/", "2", ".", "m", "p", "4">>
      [] token = "youtube.com/watch" ->
            <<"y", "o", "u", "t", "u", "b", "e", ".", "c", "o", "m", "/", "w", "a", "t", "c", "h">>
      [] token = "rule34video.com/get_file/" ->
            <<"r", "u", "l", "e", "3", "4", "v", "i", "d", "e", "o", ".", "c", "o", "m", "/", "g", "e", "t", "_", "f", "i", "l", "e", "/">>
      [] token = "eporner.com/" ->
            <<"e", "p", "o", "r", "n", "e", "r", ".", "c", "o", "m", "/">>
      [] token = "redirect" ->
            <<"r", "e", "d", "i", "r", "e", "c", "t">>
      [] token = "youtube.com" ->
            <<"y", "o", "u", "t", "u", "b", "e", ".", "c", "o", "m">>
      [] token = "youtu.be" ->
            <<"y", "o", "u", "t", "u", ".", "b", "e">>
      [] token = "soundcloud.com/t" ->
            <<"s", "o", "u", "n", "d", "c", "l", "o", "u", "d", ".", "c", "o", "m", "/", "t">>
      [] token = "clips.twitch.tv/c" ->
            <<"c", "l", "i", "p", "s", ".", "t", "w", "i", "t", "c", "h", ".", "t", "v", "/", "c">>
      [] token = "twitch.tv/u/clip/c" ->
            <<"t", "w", "i", "t", "c", "h", ".", "t", "v", "/", "u", "/", "c", "l", "i", "p", "/", "c">>
      [] token = "twitch.tv/videos/1" ->
            <<"t", "w", "i", "t", "c", "h", ".", "t", "v", "/", "v", "i", "d", "e", "o", "s", "/", "1">>
      [] token = "reddit.com/r/x" ->
            <<"r", "e", "d", "d", "i", "t", ".", "c", "o", "m", "/", "r", "/", "x">>
      [] token = "pixiv.net/a" ->
            <<"p", "i", "x", "i", "v", ".", "n", "e", "t", "/", "a">>
      [] token = "YouTube.com/watch" ->
            <<"Y", "o", "u", "T", "u", "b", "e", ".", "c", "o", "m", "/", "w", "a", "t", "c", "h">>
      [] token = "youtube-nocookie.com" ->
            <<"y", "o", "u", "t", "u", "b", "e", "-", "n", "o", "c", "o", "o", "k", "i", "e", ".", "c", "o", "m">>
      [] token = "bilibili.com" ->
            <<"b", "i", "l", "i", "b", "i", "l", "i", ".", "c", "o", "m">>
      [] token = "bilibili.tv" ->
            <<"b", "i", "l", "i", "b", "i", "l", "i", ".", "t", "v">>
      [] token = "b23.tv" ->
            <<"b", "2", "3", ".", "t", "v">>
      [] token = "reddit.com" ->
            <<"r", "e", "d", "d", "i", "t", ".", "c", "o", "m">>
      [] token = "redd.it" ->
            <<"r", "e", "d", "d", ".", "i", "t">>
      [] token = "v.redd.it" ->
            <<"v", ".", "r", "e", "d", "d", ".", "i", "t">>
      [] token = "soundcloud.com" ->
            <<"s", "o", "u", "n", "d", "c", "l", "o", "u", "d", ".", "c", "o", "m">>
      [] token = "eporner.com" ->
            <<"e", "p", "o", "r", "n", "e", "r", ".", "c", "o", "m">>
      [] token = "rule34video.com" ->
            <<"r", "u", "l", "e", "3", "4", "v", "i", "d", "e", "o", ".", "c", "o", "m">>
      [] token = "twitch.tv/" ->
            <<"t", "w", "i", "t", "c", "h", ".", "t", "v", "/">>
      [] token = "/clip" ->
            <<"/", "c", "l", "i", "p">>
      [] token = "clips.twitch.tv" ->
            <<"c", "l", "i", "p", "s", ".", "t", "w", "i", "t", "c", "h", ".", "t", "v">>
      [] token = "bandcamp.com" ->
            <<"b", "a", "n", "d", "c", "a", "m", "p", ".", "c", "o", "m">>
      [] token = ".bandcamp.com" ->
            <<".", "b", "a", "n", "d", "c", "a", "m", "p", ".", "c", "o", "m">>
      [] token = "weibo.com" ->
            <<"w", "e", "i", "b", "o", ".", "c", "o", "m">>
      [] token = "weibo.cn" ->
            <<"w", "e", "i", "b", "o", ".", "c", "n">>
      [] token = "pinterest.com" ->
            <<"p", "i", "n", "t", "e", "r", "e", "s", "t", ".", "c", "o", "m">>
      [] token = "pin.it" ->
            <<"p", "i", "n", ".", "i", "t">>
      [] token = "pixiv.net" ->
            <<"p", "i", "x", "i", "v", ".", "n", "e", "t">>
      [] token = "agerestricted" ->
            <<"a", "g", "e", "r", "e", "s", "t", "r", "i", "c", "t", "e", "d">>
      [] token = "age_restricted" ->
            <<"a", "g", "e", "_", "r", "e", "s", "t", "r", "i", "c", "t", "e", "d">>
      [] token = "age-restricted" ->
            <<"a", "g", "e", "-", "r", "e", "s", "t", "r", "i", "c", "t", "e", "d">>
      [] token = "18+" ->
            <<"1", "8", "+">>
      [] token = "mature" ->
            <<"m", "a", "t", "u", "r", "e">>
      [] token = "adult.only" ->
            <<"a", "d", "u", "l", "t", ".", "o", "n", "l", "y">>
      [] token = "private" ->
            <<"p", "r", "i", "v", "a", "t", "e">>
      [] token = "members.only" ->
            <<"m", "e", "m", "b", "e", "r", "s", ".", "o", "n", "l", "y">>
      [] token = "deleted" ->
            <<"d", "e", "l", "e", "t", "e", "d">>
      [] token = "removed" ->
            <<"r", "e", "m", "o", "v", "e", "d">>
      [] token = "taken.down" ->
            <<"t", "a", "k", "e", "n", ".", "d", "o", "w", "n">>
      [] token = "no.longer" ->
            <<"n", "o", ".", "l", "o", "n", "g", "e", "r">>
      [] token = "unavailable" ->
            <<"u", "n", "a", "v", "a", "i", "l", "a", "b", "l", "e">>
      [] token = "not.available" ->
            <<"n", "o", "t", ".", "a", "v", "a", "i", "l", "a", "b", "l", "e">>
      [] token = "login" ->
            <<"l", "o", "g", "i", "n">>
      [] token = "sign.in" ->
            <<"s", "i", "g", "n", ".", "i", "n">>
      [] token = "authenticate" ->
            <<"a", "u", "t", "h", "e", "n", "t", "i", "c", "a", "t", "e">>
      [] token = "session" ->
            <<"s", "e", "s", "s", "i", "o", "n">>
      [] token = "geoblocked" ->
            <<"g", "e", "o", "b", "l", "o", "c", "k", "e", "d">>
      [] token = "geo_blocked" ->
            <<"g", "e", "o", "_", "b", "l", "o", "c", "k", "e", "d">>
      [] token = "geo-blocked" ->
            <<"g", "e", "o", "-", "b", "l", "o", "c", "k", "e", "d">>
      [] token = "country" ->
            <<"c", "o", "u", "n", "t", "r", "y">>
      [] token = "region" ->
            <<"r", "e", "g", "i", "o", "n">>
      [] token = "not.available.in.your" ->
            <<"n", "o", "t", ".", "a", "v", "a", "i", "l", "a", "b", "l", "e", ".", "i", "n", ".", "y", "o", "u", "r">>
      [] token = "rate.limit" ->
            <<"r", "a", "t", "e", ".", "l", "i", "m", "i", "t">>
      [] token = "too.many" ->
            <<"t", "o", "o", ".", "m", "a", "n", "y">>
      [] token = "429" ->
            <<"4", "2", "9">>
      [] token = "throttl" ->
            <<"t", "h", "r", "o", "t", "t", "l">>
      [] token = "timeout" ->
            <<"t", "i", "m", "e", "o", "u", "t">>
      [] token = "time.out" ->
            <<"t", "i", "m", "e", ".", "o", "u", "t">>
      [] token = "timed.out" ->
            <<"t", "i", "m", "e", "d", ".", "o", "u", "t">>
      [] token = "404" ->
            <<"4", "0", "4">>
      [] token = "not.found" ->
            <<"n", "o", "t", ".", "f", "o", "u", "n", "d">>
      [] token = "does.not.exist" ->
            <<"d", "o", "e", "s", ".", "n", "o", "t", ".", "e", "x", "i", "s", "t">>
      [] token = "403" ->
            <<"4", "0", "3">>
      [] token = "forbidden" ->
            <<"f", "o", "r", "b", "i", "d", "d", "e", "n">>
      [] token = "access.denied" ->
            <<"a", "c", "c", "e", "s", "s", ".", "d", "e", "n", "i", "e", "d">>
      [] token = "Private video" ->
            <<"P", "r", "i", "v", "a", "t", "e", " ", "v", "i", "d", "e", "o">>
      [] token = "Sign in to confirm your age" ->
            <<"S", "i", "g", "n", " ", "i", "n", " ", "t", "o", " ", "c", "o", "n", "f", "i", "r", "m", " ", "y", "o", "u", "r", " ", "a", "g", "e">>
      [] token = "HTTP Error 429: Too Many Requests" ->
            <<"H", "T", "T", "P", " ", "E", "r", "r", "o", "r", " ", "4", "2", "9", ":", " ", "T", "o", "o", " ", "M", "a", "n", "y", " ", "R", "e", "q", "u", "e", "s", "t", "s">>
      [] token = "Video unavailable" ->
            <<"V", "i", "d", "e", "o", " ", "u", "n", "a", "v", "a", "i", "l", "a", "b", "l", "e">>
      [] token = "Unsupported URL" ->
            <<"U", "n", "s", "u", "p", "p", "o", "r", "t", "e", "d", " ", "U", "R", "L">>
      [] token = "HTTP Error 403: Forbidden" ->
            <<"H", "T", "T", "P", " ", "E", "r", "r", "o", "r", " ", "4", "0", "3", ":", " ", "F", "o", "r", "b", "i", "d", "d", "e", "n">>
      [] token = "This video is age-restricted and private" ->
            <<"T", "h", "i", "s", " ", "v", "i", "d", "e", "o", " ", "i", "s", " ", "a", "g", "e", "-", "r", "e", "s", "t", "r", "i", "c", "t", "e", "d", " ", "a", "n", "d", " ", "p", "r", "i", "v", "a", "t", "e">>
      [] token = "yt-dlp extraction failed" ->
            <<"y", "t", "-", "d", "l", "p", " ", "e", "x", "t", "r", "a", "c", "t", "i", "o", "n", " ", "f", "a", "i", "l", "e", "d">>
      [] token = "boom" ->
            <<"b", "o", "o", "m">>
      [] token = "cookie.txt" ->
            <<"c", "o", "o", "k", "i", "e", ".", "t", "x", "t">>
      [] token = "https://youtube.com/watch" ->
            <<"h", "t", "t", "p", "s", ":", "/", "/", "y", "o", "u", "t", "u", "b", "e", ".", "c", "o", "m", "/", "w", "a", "t", "c", "h">>
      [] token = " https://youtube.com/watch " ->
            <<" ", "h", "t", "t", "p", "s", ":", "/", "/", "y", "o", "u", "t", "u", "b", "e", ".", "c", "o", "m", "/", "w", "a", "t", "c", "h", " ">>
      [] token = "https://reddit.com/r/x" ->
            <<"h", "t", "t", "p", "s", ":", "/", "/", "r", "e", "d", "d", "i", "t", ".", "c", "o", "m", "/", "r", "/", "x">>
      [] token = "https://pixiv.net/a" ->
            <<"h", "t", "t", "p", "s", ":", "/", "/", "p", "i", "x", "i", "v", ".", "n", "e", "t", "/", "a">>
      [] token = "https://example.com/video.mp4" ->
            <<"h", "t", "t", "p", "s", ":", "/", "/", "e", "x", "a", "m", "p", "l", "e", ".", "c", "o", "m", "/", "v", "i", "d", "e", "o", ".", "m", "p", "4">>
      [] token = "ftp://youtube.com/x" ->
            <<"f", "t", "p", ":", "/", "/", "y", "o", "u", "t", "u", "b", "e", ".", "c", "o", "m", "/", "x">>
      [] token = "http://localhost/youtube.com" ->
            <<"h", "t", "t", "p", ":", "/", "/", "l", "o", "c", "a", "l", "h", "o", "s", "t", "/", "y", "o", "u", "t", "u", "b", "e", ".", "c", "o", "m">>
      [] token = "https://youtube.com/../x" ->
            <<"h", "t", "t", "p", "s", ":", "/", "/", "y", "o", "u", "t", "u", "b", "e", ".", "c", "o", "m", "/", ".", ".", "/", "x">>
      [] token = "http://192.168.0.1/youtube.com" ->
            <<"h", "t", "t", "p", ":", "/", "/", "1", "9", "2", ".", "1", "6", "8", ".", "0", ".", "1", "/", "y", "o", "u", "t", "u", "b", "e", ".", "c", "o", "m">>
      [] token = "https://youtube.com/; ls" ->
            <<"h", "t", "t", "p", "s", ":", "/", "/", "y", "o", "u", "t", "u", "b", "e", ".", "c", "o", "m", "/", ";", " ", "l", "s">>
      [] token = "HTTPS://YouTube.com/watch" ->
            <<"H", "T", "T", "P", "S", ":", "/", "/", "Y", "o", "u", "T", "u", "b", "e", ".", "c", "o", "m", "/", "w", "a", "t", "c", "h">>
      [] token = "https://user@youtube.com:443/watch" ->
            <<"h", "t", "t", "p", "s", ":", "/", "/", "u", "s", "e", "r", "@", "y", "o", "u", "t", "u", "b", "e", ".", "c", "o", "m", ":", "4", "4", "3", "/", "w", "a", "t", "c", "h">>
      [] token = "sid=1" ->
            <<"s", "i", "d", "=", "1">>
      [] token = "<b>boom</b>" ->
            <<"<", "b", ">", "b", "o", "o", "m", "<", "/", "b", ">">>
      [] token = "No extractor for platform" ->
            <<"N", "o", " ", "e", "x", "t", "r", "a", "c", "t", "o", "r", " ", "f", "o", "r", " ", "p", "l", "a", "t", "f", "o", "r", "m">>
      [] token = "Platform not supported" ->
            <<"P", "l", "a", "t", "f", "o", "r", "m", " ", "n", "o", "t", " ", "s", "u", "p", "p", "o", "r", "t", "e", "d">>
      [] token = "JSON body required" ->
            <<"J", "S", "O", "N", " ", "b", "o", "d", "y", " ", "r", "e", "q", "u", "i", "r", "e", "d">>
      [] token = "URL is required" ->
            <<"U", "R", "L", " ", "i", "s", " ", "r", "e", "q", "u", "i", "r", "e", "d">>
      [] token = "Malicious pattern detected" ->
            <<"M", "a", "l", "i", "c", "i", "o", "u", "s", " ", "p", "a", "t", "t", "e", "r", "n", " ", "d", "e", "t", "e", "c", "t", "e", "d">>
      [] token = "Only HTTP/HTTPS URLs allowed" ->
            <<"O", "n", "l", "y", " ", "H", "T", "T", "P", "/", "H", "T", "T", "P", "S", " ", "U", "R", "L", "s", " ", "a", "l", "l", "o", "w", "e", "d">>
      [] token = "Internal hosts not allowed" ->
            <<"I", "n", "t", "e", "r", "n", "a", "l", " ", "h", "o", "s", "t", "s", " ", "n", "o", "t", " ", "a", "l", "l", "o", "w", "e", "d">>
      [] token = "No media found from gallery-dl" ->
            <<"N", "o", " ", "m", "e", "d", "i", "a", " ", "f", "o", "u", "n", "d", " ", "f", "r", "o", "m", " ", "g", "a", "l", "l", "e", "r", "y", "-", "d", "l">>
      [] token = "t.jpg" ->
            <<"t", ".", "j", "p", "g">>
      [] token = "clip" ->
            <<"c", "l", "i", "p">>
      [] token = "abc" ->
            <<"a", "b", "c">>
      [] token = "http" ->
            <<"h", "t", "t", "p">>
      [] token = "a${b" ->
            <<"a", "$", "{", "b">>
      [] token = "UNSUPPORTED_PLATFORM" ->
            <<"U", "N", "S", "U", "P", "P", "O", "R", "T", "E", "D", "_", "P", "L", "A", "T", "F", "O", "R", "M">>
      [] token = "INVALID_URL" ->
            <<"I", "N", "V", "A", "L", "I", "D", "_", "U", "R", "L">>
      [] token = "FETCH_FAILED" ->
            <<"F", "E", "T", "C", "H", "_", "F", "A", "I", "L", "E", "D">>
      [] token = "TIMEOUT" ->
            <<"T", "I", "M", "E", "O", "U", "T">>
      [] token = "RATE_LIMITED" ->
            <<"R", "A", "T", "E", "_", "L", "I", "M", "I", "T", "E", "D">>
      [] token = "AGE_RESTRICTED" ->
            <<"A", "G", "E", "_", "R", "E", "S", "T", "R", "I", "C", "T", "E", "D">>
      [] token = "PRIVATE_CONTENT" ->
            <<"P", "R", "I", "V", "A", "T", "E", "_", "C", "O", "N", "T", "E", "N", "T">>
      [] token = "DELETED_CONTENT" ->
            <<"D", "E", "L", "E", "T", "E", "D", "_", "C", "O", "N", "T", "E", "N", "T">>
      [] token = "LOGIN_REQUIRED" ->
            <<"L", "O", "G", "I", "N", "_", "R", "E", "Q", "U", "I", "R", "E", "D">>
      [] token = "STORY_EXPIRED" ->
            <<"S", "T", "O", "R", "Y", "_", "E", "X", "P", "I", "R", "E", "D">>
      [] token = "GEO_RESTRICTED" ->
            <<"G", "E", "O", "_", "R", "E", "S", "T", "R", "I", "C", "T", "E", "D">>
      [] token = "NO_MEDIA_FOUND" ->
            <<"N", "O", "_", "M", "E", "D", "I", "A", "_", "F", "O", "U", "N", "D">>
      [] token = "EXTRACTION_FAILED" ->
            <<"E", "X", "T", "R", "A", "C", "T", "I", "O", "N", "_", "F", "A", "I", "L", "E", "D">>
      [] token = "UNSUPPORTED_FORMAT" ->
            <<"U", "N", "S", "U", "P", "P", "O", "R", "T", "E", "D", "_", "F", "O", "R", "M", "A", "T">>
      [] token = "INTERNAL_ERROR" ->
            <<"I", "N", "T", "E", "R", "N", "A", "L", "_", "E", "R", "R", "O", "R">>
      [] token = "SOMETHING_ELSE" ->
            <<"S", "O", "M", "E", "T", "H", "I", "N", "G", "_", "E", "L", "S", "E">>
      [] token = "youtube" ->
            <<"y", "o", "u", "t", "u", "b", "e">>
      [] token = "reddit" ->
            <<"r", "e", "d", "d", "i", "t">>
      [] token = "login required" ->
            <<"l", "o", "g", "i", "n", " ", "r", "e", "q", "u", "i", "r", "e", "d">>
      [] token = "sid=1;" ->
            <<"s", "i", "d", "=", "1", ";">>
      [] token = "av01" ->
            <<"a", "v", "0", "1">>
      [] token = "hev1" ->
            <<"h", "e", "v", "1">>
      [] token = "theora" ->
            <<"t", "h", "e", "o", "r", "a">>
      [] token = "rule34video.com/v/1" ->
            <<"r", "u", "l", "e", "3", "4", "v", "i", "d", "e", "o", ".", "c", "o", "m", "/", "v", "/", "1">>
      [] token = "eporner.com/v/1" ->
            <<"e", "p", "o", "r", "n", "e", "r", ".", "c", "o", "m", "/", "v", "/", "1">>
      [] token = "H264" ->
            <<"H", "2", "6", "4">>
      [] token = "h.264" ->
            <<"h", ".", "2", "6", "4">>
      [] token = "vp09" ->
            <<"v", "p", "0", "9">>
      [] token = "AV1" ->
            <<"A", "V", "1">>
      [] token = "hevc" ->
            <<"h", "e", "v", "c">>
      [] token = "h265" ->
            <<"h", "2", "6", "5">>
      [] token = "h.265" ->
            <<"h", ".", "2", "6", "5">>
      [] token = "hvc1" ->
            <<"h", "v", "c", "1">>
      [] token = "AAC" ->
            <<"A", "A", "C">>
      [] token = "mpeg" ->
            <<"m", "p", "e", "g">>
      [] token = "vorbis" ->
            <<"v", "o", "r", "b", "i", "s">>
      [] token = "flac" ->
            <<"f", "l", "a", "c">>
      [] token = "H.264" ->
            <<"H", ".", "2", "6", "4">>
      [] token = "HEVC" ->
            <<"H", "E", "V", "C">>
      [] token = "VP9" ->
            <<"V", "P", "9">>
      [] token = "Opus" ->
            <<"O", "p", "u", "s">>
      [] token = "avc" ->
            <<"a", "v", "c">>
      [] token = "h264" ->
            <<"h", "2", "6", "4">>
      [] token = "av1" ->
            <<"a", "v", "1">>
      [] token = "aac" ->
            <<"a", "a", "c">>
      [] token = "pinterest.com/pin/1" ->
            <<"p", "i", "n", "t", "e", "r", "e", "s", "t", ".", "c", "o", "m", "/", "p", "i", "n", "/", "1">>
      [] token = "x.bandcamp.com/album/a" ->
            <<"x", ".", "b", "a", "n", "d", "c", "a", "m", "p", ".", "c", "o", "m", "/", "a", "l", "b", "u", "m", "/", "a">>
      [] token = "i.jpg" ->
            <<"i", ".", "j", "p", "g">>
      [] token = ".mp4" ->
            <<".", "m", "p", "4">>
      [] token = ".webm" ->
            <<".", "w", "e", "b", "m">>
      [] token = ".m3u8" ->
            <<".", "m", "3", "u", "8">>
      [] token = ".jpg" ->
            <<".", "j", "p", "g">>
      [] token = ".jpeg" ->
            <<".", "j", "p", "e", "g">>
      [] token = ".png" ->
            <<".", "p", "n", "g">>
      [] token = ".webp" ->
            <<".", "w", "e", "b", "p">>
      [] token = "V.MP4" ->
            <<"V", ".", "M", "P", "4">>
      [] token = "page" ->
            <<"p", "a", "g", "e">>
      [] token = ""     -> <<>>

\* pattern in text, on character sequences
Contains(text, pattern) ==
    \E i \in 1..(Len(text) - Len(pattern) + 1) :
        SubSeq(text, i, i + Len(pattern) - 1) = pattern

-----------------------------------------------------------------------------
(* api/extract.py: codec normaliser. *)

\* codec.split('.')[0].upper() for the tokens drawn, none of which has a dot
UpperFirstSegment(codec) ==
    CASE codec = "pcm" -> "PCM"
      [] codec = "avc1" -> "AVC1"
      [] codec = "vp9"  -> "VP9"
      [] codec = "av01" -> "AV01"
      [] codec = "hev1" -> "HEV1"
      [] codec = "mp4a" -> "MP4A"
      [] codec = "opus" -> "OPUS"
      [] codec = "mp3"  -> "MP3"
      [] OTHER -> codec

\* the rules of normalize_codec_name on the characters of the codec
extract_normalize_codec_chars(codec, c) ==
    IF ~TruthyStr(codec) \/ codec = "none" THEN ""
    ELSE IF Contains(c, <<"a", "v", "c">>) \/ Contains(c, <<"h", "2", "6", "4">>)
            \/ Contains(c, <<"h", ".", "2", "6", "4">>) THEN "H.264"
         ELSE IF Contains(c, <<"v", "p", "9">>) \/ Contains(c, <<"v", "p", "0", "9">>)
              THEN "VP9"
         ELSE IF Contains(c, <<"a", "v", "0", "1">>) \/ Contains(c, <<"a", "v", "1">>)
              THEN "AV1"
         ELSE IF Contains(c, <<"h", "e", "v", "c">>) \/ Contains(c, <<"h", "2", "6", "5">>)
                 \/ Contains(c, <<"h", ".", "2", "6", "5">>) THEN "HEVC"
         ELSE UpperFirstSegment(codec)

extract_normalize_codec_name(codec) == extract_normalize_codec_chars(codec, Chars(codec))

\* the rules of normalize_audio_codec_name on the characters of the codec
extract_normalize_audio_codec_chars(codec, c) ==
    IF ~TruthyStr(codec) \/ codec = "none" THEN ""
    ELSE IF Contains(c, <<"m", "p", "4", "a">>) \/ Contains(c, <<"a", "a", "c">>) THEN "AAC"
         ELSE IF Contains(c, <<"o", "p", "u", "s">>) THEN "Opus"
         ELSE IF Contains(c, <<"m", "p", "3">>) \/ Contains(c, <<"m", "p", "e", "g">>)
              THEN "MP3"
         ELSE IF Contains(c, <<"v", "o", "r", "b", "i", "s">>) THEN "Vorbis"
         ELSE IF Contains(c, <<"f", "l", "a", "c">>) THEN "FLAC"
         ELSE UpperFirstSegment(codec)

extract_normalize_audio_codec_name(codec) == extract_normalize_audio_codec_chars(codec, Chars(codec))

\* DEFAULT_CODEC_PRIORITY.get(codec_name, 99)
extract_codec_priority(codec_name) ==
    CASE codec_name = "H.264" -> 0
      [] codec_name = "VP9"   -> 1
      [] codec_name = "AV1"   -> 2
      [] OTHER -> 99

\* keys that start with '_' (k.startswith('_'))
InternalKeys == {"_height", "_codec_priority", "_has_audio_score", "_bitrate"}

\* {k: v for k, v in source.items() if not k.startswith('_')}
CleanSource(source) == [k \in (DOMAIN source) \ InternalKeys |-> source[k]]

\* fmt.get('filesize') or fmt.get('filesize_approx'); 0 stands for a falsy value
FileSize(fmt) ==
    IF Get(fmt, "filesize", 0) # 0 THEN fmt.filesize ELSE Get(fmt, "filesize_approx", 0)

\* quality label of a video format, with the fps suffix
extract_video_quality(fmt) ==
    LET height == Get(fmt, "height", 0)
        fps    == Get(fmt, "fps", 0)
        base   == IF TruthyStr(Get(fmt, "format_note", "")) THEN fmt.format_note
                  ELSE IF TruthyInt(height) THEN ToString(height) \o "p"
                  ELSE Get(fmt, "format_id", "default")
    IN  IF TruthyInt(fps) /\ fps > 30 THEN base \o " " \o ToString(fps) \o "fps" ELSE base

-----------------------------------------------------------------------------
(* api/extract.py: process_video_formats, the generic pipeline. *)

\* first pass: the formats kept as video formats
extract_video_formats(fmts) ==
    SelectSeq(fmts, LAMBDA fmt :
        /\ Get(fmt, "url", "") # ""
        /\ ~(Get(fmt, "vcodec", "none") = "none" /\ Get(fmt, "acodec", "none") # "none")
        /\ Get(fmt, "vcodec", "none") # "none")

\* first pass: the formats kept as audio-only formats
extract_audio_formats(fmts) ==
    SelectSeq(fmts, LAMBDA fmt :
        /\ Get(fmt, "url", "") # ""
        /\ Get(fmt, "vcodec", "none") = "none"
        /\ Get(fmt, "acodec", "none") # "none")

\* the working record built for one video format, None values removed
extract_video_source(fmt) ==
    LET height     == Get(fmt, "height", 0)
        width      == Get(fmt, "width", 0)
        acodec     == Get(fmt, "acodec", "none")
        codec_name == extract_normalize_codec_name(Get(fmt, "vcodec", "none"))
        quality    == extract_video_quality(fmt)
        ext        == Get(fmt, "ext", "mp4")
        has_audio  == acodec # "none"
        full == [quality    |-> quality,
                 url        |-> Get(fmt, "url", ""),
                 resolution |-> ToString(width) \o "x" \o ToString(height),
                 mime       |-> "video/" \o ext,
                 extension  |-> ext,
                 filename   |-> "video_" \o quality \o "." \o ext,
                 hasAudio   |-> has_audio,
                 needsMerge |-> ~has_audio,
                 codec      |-> codec_name,
                 size       |-> FileSize(fmt),
                 _height    |-> height,
                 _codec_priority  |-> extract_codec_priority(codec_name),
                 _has_audio_score |-> IF has_audio THEN 0 ELSE 1]
        \* '_height' is kept when it is None: it stands for the local `height`
        \* the grouping reads, and never leaves the function
        keys == {"quality", "url", "mime", "filename", "hasAudio",
                 "needsMerge", "_height", "_codec_priority", "_has_audio_score"}
                \cup (IF ext # None THEN {"extension"} ELSE {})
                \cup (IF TruthyInt(width) /\ TruthyInt(height) THEN {"resolution"} ELSE {})
                \cup (IF codec_name # "" THEN {"codec"} ELSE {})
                \cup (IF FileSize(fmt) # 0 THEN {"size"} ELSE {})
    IN  [k \in keys |-> full[k]]

\* by_height: a dict keeps insertion order, so it is the list of its
\* (height, candidates) entries in the order the heights were first seen
RECURSIVE extract_group_by_height(_, _)
extract_group_by_height(sources, by_height) ==
    IF sources = <<>> THEN by_height
    ELSE LET s == Head(sources)
             present == \E i \in 1..Len(by_height) : by_height[i].h = s._height
             added == IF present
                      THEN [i \in 1..Len(by_height) |->
                              IF by_height[i].h = s._height
                              THEN [by_height[i] EXCEPT !.cands = Append(@, s)]
                              ELSE by_height[i]]
                      ELSE Append(by_height, [h |-> s._height, cands |-> <<s>>])
         IN  extract_group_by_height(Tail(sources), added)

\* mutant of extract_within_tolerance: the bound made exclusive
extract_within_tolerance_exclusive(h, target_h, tolerance) ==
    Abs(h - target_h) * 100 < target_h * tolerance

\* abs(h - target_h) <= target_h * height_tolerance, the tolerance in percent
extract_within_tolerance(h, target_h, tolerance) ==
    Abs(h - target_h) * 100 <= target_h * tolerance

\* the loop over by_height.keys(): best_match_height, <<>> standing for None
RECURSIVE extract_best_match_height(_, _, _, _)
extract_best_match_height(by_height, target_h, tolerance, best) ==
    IF by_height = <<>> THEN best
    ELSE LET h == Head(by_height).h
             better == /\ extract_within_tolerance(h, target_h, tolerance)
                       /\ (best = <<>> \/ Abs(h - target_h) < Abs(best[1] - target_h))
         IN  extract_best_match_height(Tail(by_height), target_h, tolerance,
                                       IF better THEN <<h>> ELSE best)

\* mutant of extract_candidate_key: the codec priority compared first
extract_candidate_key_codec_first(x) ==
    <<Get(x, "_codec_priority", 99), Get(x, "_has_audio_score", 1)>>

\* the key of candidates.sort: (_has_audio_score, _codec_priority)
extract_candidate_key(x) ==
    <<Get(x, "_has_audio_score", 1), Get(x, "_codec_priority", 99)>>

\* mutant of extract_select_per_target: the used bucket is not deleted
RECURSIVE extract_select_per_target_keep(_, _, _, _)
extract_select_per_target_keep(targets, i, by_height, tolerance) ==
    IF i > Len(targets) THEN <<>>
    ELSE LET target_h == targets[i]
             best_match_height == extract_best_match_height(by_height, target_h, tolerance, <<>>)
         IN  IF best_match_height # <<>> /\ best_match_height[1] # 0
             THEN LET h     == best_match_height[1]
                      entry == CHOOSE e \in {by_height[j] : j \in 1..Len(by_height)} : e.h = h
                      best  == SortedBy(entry.cands, extract_candidate_key)[1]
                  IN  <<[target |-> i, bucket |-> h, best |-> best]>>
                      \o extract_select_per_target_keep(targets, i + 1, by_height, tolerance)
             ELSE extract_select_per_target_keep(targets, i + 1, by_height, tolerance)

\* the loop over target_heights, from the i-th target on: one entry per
\* target that found a bucket, holding the `best` working record together with
\* the index of the target and the bucket it was taken from; a used bucket is
\* deleted from by_height
RECURSIVE extract_select_per_target(_, _, _, _)
extract_select_per_target(targets, i, by_height, tolerance) ==
    IF i > Len(targets) THEN <<>>
    ELSE LET target_h == targets[i]
             best_match_height == extract_best_match_height(by_height, target_h, tolerance, <<>>)
         IN  IF best_match_height # <<>> /\ best_match_height[1] # 0
             THEN LET h     == best_match_height[1]
                      entry == CHOOSE e \in {by_height[j] : j \in 1..Len(by_height)} : e.h = h
                      best  == SortedBy(entry.cands, extract_candidate_key)[1]
                      rest  == SelectSeq(by_height, LAMBDA e : e.h # h)
                  IN  <<[target |-> i, bucket |-> h, best |-> best]>>
                      \o extract_select_per_target(targets, i + 1, rest, tolerance)
             ELSE extract_select_per_target(targets, i + 1, by_height, tolerance)

\* the picks of a call
extract_selected(fmts, targets, tolerance) ==
    extract_select_per_target(
        targets, 1,
        extract_group_by_height(Map(extract_video_formats(fmts), extract_video_source), <<>>),
        tolerance)

\* the record built for one audio-only format, None values removed
extract_audio_source(fmt) ==
    LET abr        == Get(fmt, "abr", 0)
        ext        == Get(fmt, "ext", "m4a")
        codec_name == extract_normalize_audio_codec_name(Get(fmt, "acodec", "none"))
        quality    == IF TruthyStr(Get(fmt, "format_note", "")) THEN fmt.format_note
                      ELSE IF TruthyInt(abr) THEN ToString(abr) \o "kbps"
                      ELSE Get(fmt, "format_id", "audio")
        full == [quality   |-> quality,
                 url       |-> Get(fmt, "url", ""),
                 mime      |-> "audio/" \o ext,
                 extension |-> ext,
                 filename  |-> "audio_" \o quality \o "." \o ext,
                 codec     |-> codec_name,
                 _bitrate  |-> abr,
                 bitrate   |-> abr,
                 size      |-> FileSize(fmt)]
        keys == {"quality", "url", "mime", "filename"}
                \cup (IF ext # None THEN {"extension"} ELSE {})
                \cup (IF abr # NoneInt THEN {"_bitrate"} ELSE {})
                \cup (IF codec_name # "" THEN {"codec"} ELSE {})
                \cup (IF TruthyInt(abr) THEN {"bitrate"} ELSE {})
                \cup (IF FileSize(fmt) # 0 THEN {"size"} ELSE {})
    IN  [k \in keys |-> full[k]]

\* returns (video_sources, audio_sources); `picked` is the trace of the
\* selection loop (target index and bucket of each video Source), not returned
extract_process_video_formats(fmts, targets, tolerance) ==
    LET picks == extract_selected(fmts, targets, tolerance) IN
    [video  |-> [i \in 1..Len(picks) |-> CleanSource(picks[i].best)],
     audio  |-> Map(extract_audio_formats(fmts), extract_audio_source),
     hls    |-> <<>>,
     picked |-> [i \in 1..Len(picks) |-> [target |-> picks[i].target, bucket |-> picks[i].bucket]]]

\* process_video_formats raises TypeError: a video format whose height is None
\* is grouped under the key None, and abs(h - target_h) is evaluated for every
\* key of by_height as soon as there is a target; every other read of a
\* nullable field is guarded (`fps and`, `width and height`, `if abr`,
\* `not codec`) or only formatted
extract_process_video_formats_raises(fmts, targets) ==
    LET video_formats == extract_video_formats(fmts) IN
    /\ targets # <<>>
    /\ \E i \in 1..Len(video_formats) : Get(video_formats[i], "height", 0) = NoneInt

-----------------------------------------------------------------------------
(* api/extract.py: process_audio_formats. *)

\* x.get('_bitrate', x.get('bitrate', 0))
extract_bitrate_of(x) == Get(x, "_bitrate", Get(x, "bitrate", 0))

\* mutant of extract_pick_best_by_bitrate: the highest bitrate is picked
extract_pick_best_by_bitrate_highest(sources, target) ==
    IF sources = <<>> THEN <<>>
    ELSE <<SortedBy(sources, LAMBDA x : <<-extract_bitrate_of(x)>>)[1]>>

\* pick_best_by_bitrate: <<>> stands for None
extract_pick_best_by_bitrate(sources, target) ==
    IF sources = <<>> THEN <<>>
    ELSE <<SortedBy(sources, LAMBDA x : <<Abs(extract_bitrate_of(x) - target)>>)[1]>>

\* mutant of extract_process_audio_formats: the Opus pick is appended first
extract_process_audio_formats_opus_first(audio_sources, target) ==
    IF audio_sources = <<>> THEN <<>>
    ELSE
    LET aac_sources   == SelectSeq(audio_sources, LAMBDA x : Get(x, "codec", "") = "AAC")
        opus_sources  == SelectSeq(audio_sources, LAMBDA x : Get(x, "codec", "") = "Opus")
        other_sources == SelectSeq(audio_sources,
                                   LAMBDA x : Get(x, "codec", "") \notin {"AAC", "Opus"})
        best_aac  == extract_pick_best_by_bitrate(aac_sources, target)
        best_opus == extract_pick_best_by_bitrate(opus_sources, target)
        result    == Map(best_opus, CleanSource) \o Map(best_aac, CleanSource)
    IN  IF result = <<>> /\ other_sources # <<>>
        THEN <<CleanSource(
                 SortedBy(other_sources, LAMBDA x : <<-extract_bitrate_of(x)>>)[1])>>
        ELSE result

extract_process_audio_formats(audio_sources, target) ==
    IF audio_sources = <<>> THEN <<>>
    ELSE
    LET aac_sources   == SelectSeq(audio_sources, LAMBDA x : Get(x, "codec", "") = "AAC")
        opus_sources  == SelectSeq(audio_sources, LAMBDA x : Get(x, "codec", "") = "Opus")
        other_sources == SelectSeq(audio_sources,
                                   LAMBDA x : Get(x, "codec", "") \notin {"AAC", "Opus"})
        best_aac  == extract_pick_best_by_bitrate(aac_sources, target)
        best_opus == extract_pick_best_by_bitrate(opus_sources, target)
        result    == Map(best_aac, CleanSource) \o Map(best_opus, CleanSource)
    IN  IF result = <<>> /\ other_sources # <<>>
        THEN <<CleanSource(
                 \* sort(key=bitrate, reverse=True): stable, descending
                 SortedBy(other_sources, LAMBDA x : <<-extract_bitrate_of(x)>>)[1])>>
        ELSE result

-----------------------------------------------------------------------------
(* api/extract.py: process_youtube_formats, the progressive-priority pipeline. *)

\* the tests of is_hls_format on the characters of the url
extract_is_hls_url(fmt, url) ==
    \/ Contains(url, <<".", "m", "3", "u", "8">>)
    \/ Contains(url, <<"/", "m", "a", "n", "i", "f", "e", "s", "t", "/">>)
    \/ Contains(url, <<"i", "n", "d", "e", "x", ".", "m", "3", "u", "8">>)
    \/ Get(fmt, "protocol", "") \in {"m3u8", "m3u8_native", "hls"}

extract_is_hls_format(fmt) == extract_is_hls_url(fmt, Chars(Get(fmt, "url", "")))

extract_is_progressive_format(fmt) ==
    Get(fmt, "vcodec", "none") # "none" /\ Get(fmt, "acodec", "none") # "none"

\* first pass: "hls", "audio", "progressive", "dash", or "skip"
extract_youtube_category(fmt) ==
    IF Get(fmt, "url", "") = "" THEN "skip"
    ELSE IF extract_is_hls_format(fmt) THEN "hls"
    ELSE IF Get(fmt, "vcodec", "none") = "none" /\ Get(fmt, "acodec", "none") # "none"
         THEN "audio"
    ELSE IF extract_is_progressive_format(fmt) THEN "progressive"
    ELSE IF Get(fmt, "vcodec", "none") # "none" THEN "dash"
    ELSE "skip"

extract_of_category(fmts, category) ==
    SelectSeq(fmts, LAMBDA fmt : extract_youtube_category(fmt) = category)

\* build_source(fmt, has_audio)
extract_build_source(fmt, has_audio) ==
    LET height     == Get(fmt, "height", 0)
        width      == Get(fmt, "width", 0)
        codec_name == extract_normalize_codec_name(Get(fmt, "vcodec", "none"))
        quality    == extract_video_quality(fmt)
        ext        == Get(fmt, "ext", "mp4")
        full == [quality    |-> quality,
                 url        |-> Get(fmt, "url", ""),
                 resolution |-> ToString(width) \o "x" \o ToString(height),
                 mime       |-> "video/" \o ext,
                 extension  |-> ext,
                 filename   |-> "video_" \o quality \o "." \o ext,
                 hasAudio   |-> has_audio,
                 needsMerge |-> ~has_audio,
                 codec      |-> codec_name,
                 size       |-> FileSize(fmt)]
        keys == {"quality", "url", "mime", "filename", "hasAudio", "needsMerge"}
                \cup (IF ext # None THEN {"extension"} ELSE {})
                \cup (IF TruthyInt(width) /\ TruthyInt(height) THEN {"resolution"} ELSE {})
                \cup (IF codec_name # "" THEN {"codec"} ELSE {})
                \cup (IF FileSize(fmt) # 0 THEN {"size"} ELSE {})
    IN  [k \in keys |-> full[k]]

\* sort key (-height, codec priority)
extract_height_codec_key(x) ==
    <<-Get(x, "height", 0),
      extract_codec_priority(extract_normalize_codec_name(Get(x, "vcodec", "")))>>

\* abs(height - target_h) <= target_h * 0.1 for some target
extract_height_match(height, targets) ==
    \E i \in 1..Len(targets) : Abs(height - targets[i]) * 10 <= targets[i]

\* Step 1, the loop over the sorted progressive formats: the formats emitted
RECURSIVE extract_progressive_loop(_, _, _, _)
extract_progressive_loop(fmts, seen_heights, max_height, targets) ==
    IF fmts = <<>> THEN <<>>
    ELSE LET fmt == Head(fmts)
             height == Get(fmt, "height", 0)
         IN  IF height > max_height
             THEN extract_progressive_loop(Tail(fmts), seen_heights, max_height, targets)
             ELSE IF height \in seen_heights
             THEN extract_progressive_loop(Tail(fmts), seen_heights, max_height, targets)
             ELSE IF extract_height_match(height, targets) \/ height <= max_height
             THEN <<fmt>> \o extract_progressive_loop(Tail(fmts), seen_heights \cup {height},
                                                     max_height, targets)
             ELSE extract_progressive_loop(Tail(fmts), seen_heights, max_height, targets)

\* mutant of extract_dash_loop: the heights Step 1 emitted are not skipped
RECURSIVE extract_dash_loop_unseen(_, _, _)
extract_dash_loop_unseen(fmts, seen_heights, targets) ==
    IF fmts = <<>> THEN <<>>
    ELSE LET fmt == Head(fmts)
             height == Get(fmt, "height", 0)
         IN  IF extract_height_match(height, targets)
             THEN <<fmt>> \o extract_dash_loop_unseen(Tail(fmts), seen_heights, targets)
             ELSE extract_dash_loop_unseen(Tail(fmts), seen_heights, targets)

\* Step 2, the loop over the sorted video-only formats: the formats emitted
RECURSIVE extract_dash_loop(_, _, _)
extract_dash_loop(fmts, seen_heights, targets) ==
    IF fmts = <<>> THEN <<>>
    ELSE LET fmt == Head(fmts)
             height == Get(fmt, "height", 0)
         IN  IF height \in seen_heights
             THEN extract_dash_loop(Tail(fmts), seen_heights, targets)
             ELSE IF extract_height_match(height, targets)
             THEN <<fmt>> \o extract_dash_loop(Tail(fmts), seen_heights \cup {height}, targets)
             ELSE extract_dash_loop(Tail(fmts), seen_heights, targets)

\* Step 3, the loop over the HLS formats sorted by height: the formats emitted
RECURSIVE extract_hls_loop(_, _, _)
extract_hls_loop(fmts, hls_seen_heights, targets) ==
    IF fmts = <<>> THEN <<>>
    ELSE LET fmt == Head(fmts)
             height == Get(fmt, "height", 0)
         IN  IF height \in hls_seen_heights
             THEN extract_hls_loop(Tail(fmts), hls_seen_heights, targets)
             ELSE IF extract_height_match(height, targets)
             THEN <<fmt>> \o extract_hls_loop(Tail(fmts), hls_seen_heights \cup {height},
                                              targets)
             ELSE extract_hls_loop(Tail(fmts), hls_seen_heights, targets)

\* the HLS Source built in Step 3
extract_hls_source(fmt) ==
    LET height     == Get(fmt, "height", 0)
        width      == Get(fmt, "width", 0)
        codec_name == extract_normalize_codec_name(Get(fmt, "vcodec", "none"))
        quality    == extract_video_quality(fmt)
        full == [quality    |-> quality,
                 url        |-> Get(fmt, "url", ""),
                 resolution |-> ToString(width) \o "x" \o ToString(height),
                 mime       |-> "video/mp4",
                 extension  |-> "mp4",
                 filename   |-> "video_" \o quality \o ".mp4",
                 format     |-> "hls",
                 hasAudio   |-> Get(fmt, "acodec", "none") # "none",
                 needsMerge |-> FALSE,
                 needsProxy |-> TRUE,
                 codec      |-> codec_name,
                 size       |-> FileSize(fmt)]
        keys == {"quality", "url", "mime", "extension", "filename", "format",
                 "hasAudio", "needsMerge", "needsProxy"}
                \cup (IF TruthyInt(width) /\ TruthyInt(height) THEN {"resolution"} ELSE {})
                \cup (IF codec_name # "" THEN {"codec"} ELSE {})
                \cup (IF FileSize(fmt) # 0 THEN {"size"} ELSE {})
    IN  [k \in keys |-> full[k]]

\* returns (video_sources, audio_sources, hls_sources); `picked` is the trace
\* of Steps 1 and 2: the height of the format behind each video Source
extract_process_youtube_formats(fmts, max_height, targets, with_hls) ==
    LET progressive_formats == SortedBy(extract_of_category(fmts, "progressive"),
                                        extract_height_codec_key)
        dash_video_formats  == SortedBy(extract_of_category(fmts, "dash"),
                                        extract_height_codec_key)
        hls_formats == IF with_hls
                       THEN SortedBy(extract_of_category(fmts, "hls"),
                                     LAMBDA x : <<-Get(x, "height", 0)>>)
                       ELSE <<>>
        step1 == extract_progressive_loop(progressive_formats, {}, max_height, targets)
        seen1 == {Get(step1[i], "height", 0) : i \in 1..Len(step1)}
        step2 == extract_dash_loop(dash_video_formats, seen1, targets)
        step3 == extract_hls_loop(hls_formats, {}, targets)
    IN  [video  |-> Map(step1, LAMBDA f : extract_build_source(f, TRUE))
                    \o Map(step2, LAMBDA f : extract_build_source(f, FALSE)),
         audio  |-> extract_process_audio_formats(
                        Map(extract_of_category(fmts, "audio"), extract_audio_source), 128),
         hls    |-> Map(step3, extract_hls_source),
         picked |-> Map(step1 \o step2, LAMBDA f : [bucket |-> Get(f, "height", 0)])]

\* process_youtube_formats raises TypeError: the sort keys negate the height
\* (-x.get('height', 0)) of every progressive, video-only and, with
\* include_hls, HLS format; list.sort calls the key on every element
extract_process_youtube_formats_raises(fmts, with_hls) ==
    \E i \in 1..Len(fmts) :
        /\ Get(fmts[i], "height", 0) = NoneInt
        /\ \/ extract_youtube_category(fmts[i]) \in {"progressive", "dash"}
           \/ with_hls /\ extract_youtube_category(fmts[i]) = "hls"

-----------------------------------------------------------------------------
(* api/services/formats.py.  A key whose value is None is left out of the  *)
(* record that models the dict.                                            *)

\* str.lower() on character sequences
LowerChar(c) ==
    CASE c = "A" -> "a" [] c = "B" -> "b" [] c = "C" -> "c" [] c = "D" -> "d"
      [] c = "E" -> "e" [] c = "F" -> "f" [] c = "G" -> "g" [] c = "H" -> "h"
      [] c = "I" -> "i" [] c = "J" -> "j" [] c = "K" -> "k" [] c = "L" -> "l"
      [] c = "M" -> "m" [] c = "N" -> "n" [] c = "O" -> "o" [] c = "P" -> "p"
      [] c = "Q" -> "q" [] c = "R" -> "r" [] c = "S" -> "s" [] c = "T" -> "t"
      [] c = "U" -> "u" [] c = "V" -> "v" [] c = "W" -> "w" [] c = "X" -> "x"
      [] c = "Y" -> "y" [] c = "Z" -> "z" [] OTHER -> c

Lower(chars) == [i \in 1..Len(chars) |-> LowerChar(chars[i])]

\* CODEC_PRIORITY.get(codec_name, 99)
formats_codec_priority(codec_name) ==
    CASE codec_name = "H.264" -> 0
      [] codec_name = "VP9"   -> 1
      [] codec_name = "AV1"   -> 2
      [] codec_name = "HEVC"  -> 3
      [] OTHER -> 99

\* the rules of normalize_codec_name on `value`, the lower-cased codec
formats_normalize_codec_value(codec, value) ==
    IF Contains(value, <<"a", "v", "c", "1">>) \/ Contains(value, <<"h", "2", "6", "4">>)
       \/ Contains(value, <<"a", "v", "c">>) THEN "H.264"
    ELSE IF Contains(value, <<"v", "p", "9">>) THEN "VP9"
    ELSE IF Contains(value, <<"a", "v", "0", "1">>) \/ Contains(value, <<"a", "v", "1">>)
         THEN "AV1"
    ELSE IF Contains(value, <<"h", "e", "v", "c">>) \/ Contains(value, <<"h", "2", "6", "5">>)
            \/ Contains(value, <<"h", "e", "v", "1">>) \/ Contains(value, <<"h", "v", "c", "1">>)
         THEN "HEVC"
    ELSE IF codec # "" THEN codec ELSE "Unknown"

formats_normalize_codec_name(codec) ==
    formats_normalize_codec_value(codec, Lower(Chars(codec)))

\* the rules of normalize_audio_codec_name on `value`, the lower-cased codec
formats_normalize_audio_codec_value(codec, value) ==
    IF Contains(value, <<"m", "p", "4", "a">>) \/ Contains(value, <<"a", "a", "c">>) THEN "AAC"
    ELSE IF Contains(value, <<"o", "p", "u", "s">>) THEN "Opus"
    ELSE IF Contains(value, <<"m", "p", "3">>) THEN "MP3"
    ELSE IF Contains(value, <<"v", "o", "r", "b", "i", "s">>) THEN "Vorbis"
    ELSE IF Contains(value, <<"f", "l", "a", "c">>) THEN "FLAC"
    ELSE IF codec # "" THEN codec ELSE "Unknown"

formats_normalize_audio_codec_name(codec) ==
    formats_normalize_audio_codec_value(codec, Lower(Chars(codec)))

\* EXTENSION_TO_MIME (MIME_TO_EXTENSION inverted, a later entry replacing an
\* earlier one with the same extension), else media_type/ext
formats_get_mime_from_extension(ext, media_type) ==
    CASE ext = "mp4"  -> "video/mp4"
      [] ext = "webm" -> "audio/webm"
      [] ext = "mp3"  -> "audio/mpeg"
      [] ext = "m4a"  -> "audio/mp4"
      [] ext = "aac"  -> "audio/aac"
      [] ext = "jpg"  -> "image/jpeg"
      [] ext = "png"  -> "image/png"
      [] ext = "webp" -> "image/webp"
      [] ext = "gif"  -> "image/gif"
      [] OTHER -> IF ext # "" THEN media_type \o "/" \o ext
                  ELSE media_type \o "/octet-stream"

formats_is_audio_only(fmt) ==
    Get(fmt, "vcodec", "none") = "none" /\ Get(fmt, "acodec", "none") \notin {"none", ""}

formats_is_video(fmt) == Get(fmt, "vcodec", "none") \notin {"none", ""}

formats_is_progressive(fmt) ==
    Get(fmt, "vcodec", "none") \notin {"none", ""} /\ Get(fmt, "acodec", "none") \notin {"none", ""}

\* the tests of is_hls_format on the lower-cased url and protocol
formats_is_hls_values(fmt, url, proto) ==
        \/ Contains(url, <<".", "m", "3", "u", "8">>)
        \/ Contains(proto, <<"m", "3", "u", "8">>)
        \/ Get(fmt, "ext", "") = "m3u8"
        \/ Contains(url, <<"/", "m", "a", "n", "i", "f", "e", "s", "t", "/">>)
        \/ Contains(url, <<"i", "n", "d", "e", "x", ".", "m", "3", "u", "8">>)
        \/ proto = <<"h", "l", "s">>

formats_is_hls_format(fmt) ==
    formats_is_hls_values(fmt, Lower(Chars(Get(fmt, "url", ""))),
                          Lower(Chars(Get(fmt, "protocol", ""))))

\* text[-1]
LastChar(chars) == chars[Len(chars)]

\* _format_source(fmt, media_type, is_progressive)
formats_format_source(fmt, media_type, is_progressive) ==
    LET ext    == Get(fmt, "ext", "")
        height == Get(fmt, "height", 0)
        width  == Get(fmt, "width", 0)
        fps    == Get(fmt, "fps", 0)
        note   == Get(fmt, "format_note", "")
        base   == IF note # "" THEN note
                  ELSE IF height # 0 THEN ToString(height) \o "p"
                  ELSE "source"
        ends_p == IF note # "" THEN LastChar(Chars(note)) = "p" ELSE height # 0
        quality == IF fps > 30
                   THEN IF ends_p THEN base \o ToString(fps)
                        ELSE base \o " " \o ToString(fps) \o "fps"
                   ELSE base
        acodec == Get(fmt, "acodec", "")
        full == [quality    |-> quality,
                 url        |-> Get(fmt, "url", ""),
                 resolution |-> ToString(width) \o "x" \o ToString(height),
                 mime       |-> IF Get(fmt, "mime_type", "") # "" THEN fmt.mime_type
                                ELSE formats_get_mime_from_extension(ext, media_type),
                 extension  |-> ext,
                 bitrate    |-> Get(fmt, "abr", 0),
                 codec      |-> IF formats_is_video(fmt)
                                THEN formats_normalize_codec_name(Get(fmt, "vcodec", ""))
                                ELSE formats_normalize_audio_codec_name(Get(fmt, "acodec", "")),
                 hasAudio   |-> acodec \notin {"none", ""},
                 needsMerge |-> formats_is_video(fmt) /\ acodec \in {"none", ""},
                 format     |-> IF is_progressive THEN "progressive"
                                ELSE IF formats_is_hls_format(fmt) THEN "hls" ELSE "dash",
                 formatId   |-> Get(fmt, "format_id", ""),
                 filesize   |-> FileSize(fmt)]
        keys == {"quality", "url", "mime", "codec", "hasAudio", "needsMerge", "format"}
                \cup (IF TruthyInt(width) /\ TruthyInt(height) THEN {"resolution"} ELSE {})
                \cup (IF "ext" \in DOMAIN fmt THEN {"extension"} ELSE {})
                \cup (IF "abr" \in DOMAIN fmt THEN {"bitrate"} ELSE {})
                \cup (IF "format_id" \in DOMAIN fmt THEN {"formatId"} ELSE {})
                \cup (IF FileSize(fmt) # 0 THEN {"filesize"} ELSE {})
    IN  [k \in keys |-> full[k]]

\* by_codec[codec]
formats_by_codec(fmts, codec) ==
    SelectSeq(fmts, LAMBDA f :
        formats_normalize_audio_codec_name(Get(f, "acodec", "")) = codec)

\* codec_order, the preference order
formats_codec_order == <<"AAC", "Opus", "MP3", "Vorbis", "FLAC">>

\* the loop over codec_order, from the i-th codec on: the `best` formats
RECURSIVE formats_best_per_codec(_, _, _)
formats_best_per_codec(fmts, i, target) ==
    IF i > Len(formats_codec_order) THEN <<>>
    ELSE LET candidates == formats_by_codec(fmts, formats_codec_order[i]) IN
         IF candidates = <<>>
         THEN formats_best_per_codec(fmts, i + 1, target)
         ELSE <<SortedBy(candidates, LAMBDA f : <<Abs(Get(f, "abr", 0) - target)>>)[1]>>
              \o formats_best_per_codec(fmts, i + 1, target)

formats_process_audio_formats(audio_formats, target) ==
    IF audio_formats = <<>> THEN <<>>
    ELSE Map(formats_best_per_codec(audio_formats, 1, target),
             LAMBDA f : formats_format_source(f, "audio", FALSE))

\* first pass of process_youtube_formats: "hls", "audio", "progressive",
\* "video" (video-only), or "skip"
formats_youtube_category(fmt) ==
    IF Get(fmt, "url", "") = "" THEN "skip"
    ELSE IF formats_is_hls_format(fmt) THEN "hls"
    ELSE IF formats_is_audio_only(fmt) THEN "audio"
    ELSE IF formats_is_video(fmt)
         THEN IF formats_is_progressive(fmt) THEN "progressive" ELSE "video"
    ELSE "skip"

formats_of_category(fmts, category) ==
    SelectSeq(fmts, LAMBDA fmt : formats_youtube_category(fmt) = category)

\* the heights of by_height_codec, sorted descending, as a list
RECURSIVE formats_sorted_desc(_)
formats_sorted_desc(heights) ==
    IF heights = {} THEN <<>>
    ELSE LET top == CHOOSE h \in heights : \A g \in heights : g <= h IN
         <<top>> \o formats_sorted_desc(heights \ {top})

\* mutant of formats_codecs_at_height: every candidate of a codec is kept
formats_codecs_at_height_all(videos, h, progressive_heights) ==
    LET codecs == <<"H.264", "VP9", "AV1", "HEVC">>
        at(codec) == SelectSeq(videos, LAMBDA f :
                        /\ Get(f, "height", 0) = h
                        /\ formats_normalize_codec_name(Get(f, "vcodec", "")) = codec)
        pick(codec) == IF codec = "H.264" /\ h \in progressive_heights THEN <<>>
                       ELSE at(codec)
    IN  pick(codecs[1]) \o pick(codecs[2]) \o pick(codecs[3]) \o pick(codecs[4])

\* codecs_at_height for one height: the first candidate of each codec of
\* the fixed list, H.264 left out at a height a progressive format has
formats_codecs_at_height(videos, h, progressive_heights) ==
    LET codecs == <<"H.264", "VP9", "AV1", "HEVC">>
        at(codec) == SelectSeq(videos, LAMBDA f :
                        /\ Get(f, "height", 0) = h
                        /\ formats_normalize_codec_name(Get(f, "vcodec", "")) = codec)
        pick(codec) == IF codec = "H.264" /\ h \in progressive_heights THEN <<>>
                       ELSE IF at(codec) = <<>> THEN <<>>
                       ELSE <<SortedBy(at(codec), LAMBDA f :
                                <<formats_codec_priority(
                                    formats_normalize_codec_name(Get(f, "vcodec", "")))>>)[1]>>
    IN  pick(codecs[1]) \o pick(codecs[2]) \o pick(codecs[3]) \o pick(codecs[4])

\* the loop over unique_heights: the video-only formats emitted
RECURSIVE formats_dash_loop(_, _, _)
formats_dash_loop(videos, unique_heights, progressive_heights) ==
    IF unique_heights = <<>> THEN <<>>
    ELSE formats_codecs_at_height(videos, Head(unique_heights), progressive_heights)
         \o formats_dash_loop(videos, Tail(unique_heights), progressive_heights)

\* mutant of formats_result_order: the video-only formats come first
formats_result_order_dash_first(progressive, dash) ==
    [f |-> dash \o progressive,
     p |-> [i \in 1..(Len(dash) + Len(progressive)) |-> i > Len(dash)]]

\* the order in which result is filled: every progressive format, in input
\* order, then the video-only formats the loop over unique_heights emits;
\* f the formats, p the is_progressive argument each is built with
formats_result_order(progressive, dash) ==
    [f |-> progressive \o dash,
     p |-> [i \in 1..(Len(progressive) + Len(dash)) |-> i <= Len(progressive)]]

\* returns (result, audio sources, hls_sources); `picked` is the trace: the
\* height of the format behind each Source of result
formats_process_youtube_formats(fmts, with_hls) ==
    LET progressive == formats_of_category(fmts, "progressive")
        videos      == SelectSeq(formats_of_category(fmts, "video"),
                                 LAMBDA f : Get(f, "height", 0) > 0)
        audios      == formats_of_category(fmts, "audio")
        hls_formats == IF with_hls THEN formats_of_category(fmts, "hls") ELSE <<>>
        progressive_heights == {Get(progressive[i], "height", 0) : i \in 1..Len(progressive)}
                               \ {0}
        unique_heights == formats_sorted_desc(
                              {Get(videos[i], "height", 0) : i \in 1..Len(videos)})
        dash == formats_dash_loop(videos, unique_heights, progressive_heights)
        result == formats_result_order(progressive, dash)
    IN  [video  |-> [i \in 1..Len(result.f) |->
                        formats_format_source(result.f[i], "video", result.p[i])],
         audio  |-> formats_process_audio_formats(audios, 128),
         hls    |-> Map(hls_formats, LAMBDA f : formats_format_source(f, "video", FALSE)),
         picked |-> Map(result.f, LAMBDA f : [bucket |-> Get(f, "height", 0)])]

\* api/services/formats.py, process_video_formats: by_height as the list of
\* its (height, candidates) entries, in the order the heights were first seen
RECURSIVE formats_group_by_height(_, _)
formats_group_by_height(videos, by_height) ==
    IF videos = <<>> THEN by_height
    ELSE LET fmt == Head(videos)
             h   == Get(fmt, "height", 0)
             present == \E i \in 1..Len(by_height) : by_height[i].h = h
             added == IF h <= 0 THEN by_height
                      ELSE IF present
                      THEN [i \in 1..Len(by_height) |->
                              IF by_height[i].h = h
                              THEN [by_height[i] EXCEPT !.cands = Append(@, fmt)]
                              ELSE by_height[i]]
                      ELSE Append(by_height, [h |-> h, cands |-> <<fmt>>])
         IN  formats_group_by_height(Tail(videos), added)

\* the loop over sorted(by_height.keys(), reverse=True): the `best` formats
RECURSIVE formats_select_per_height(_, _, _, _)
formats_select_per_height(heights, by_height, targets, codec_priority) ==
    IF heights = <<>> THEN <<>>
    ELSE LET h == Head(heights)
             rest == formats_select_per_height(Tail(heights), by_height, targets,
                                               codec_priority)
         IN  IF \A i \in 1..Len(targets) : targets[i] # h THEN rest
             ELSE LET entry == CHOOSE e \in {by_height[j] : j \in 1..Len(by_height)} : e.h = h
                      best  == SortedBy(entry.cands, LAMBDA f :
                                 <<Get(codec_priority,
                                       formats_normalize_codec_name(Get(f, "vcodec", "")),
                                       99)>>)[1]
                  IN  <<best>> \o rest

\* videos[:6]
FirstSix(videos) == SubSeq(videos, 1, IF Len(videos) < 6 THEN Len(videos) ELSE 6)

\* process_video_formats(formats, info, target_heights, codec_priority):
\* returns (selected, audio sources); target_heights and codec_priority
\* default to the module's TARGET_HEIGHTS and CODEC_PRIORITY
formats_process_video_formats(fmts, targets, codec_priority) ==
    LET all_videos == SelectSeq(fmts, LAMBDA fmt :
                         formats_youtube_category(fmt) \in {"progressive", "video"})
        audios == formats_of_category(fmts, "audio")
        by_height == formats_group_by_height(all_videos, <<>>)
        heights   == formats_sorted_desc({by_height[i].h : i \in 1..Len(by_height)})
        selected  == formats_select_per_height(heights, by_height, targets,
                                               codec_priority)
        chosen    == IF selected # <<>> THEN selected ELSE FirstSix(all_videos)
    IN  [video  |-> Map(chosen, LAMBDA f :
                        formats_format_source(f, "video", formats_is_progressive(f))),
         audio  |-> formats_process_audio_formats(audios, 128),
         hls    |-> <<>>,
         picked |-> Map(chosen, LAMBDA f : [bucket |-> Get(f, "height", 0)])]

\* mutant of formats_codec_priority_after: the lookup removes the entry
formats_codec_priority_after_pop(codec_priority, looked_up) ==
    [c \in (DOMAIN codec_priority) \ looked_up |-> codec_priority[c]]

\* the dict bound to codec_priority (the module's CODEC_PRIORITY by default)
\* after a call that looked the names `looked_up` up: it is only read, with
\* codec_priority.get(name, 99), which inserts nothing; no statement of the
\* module assigns CODEC_PRIORITY or TARGET_HEIGHTS
formats_codec_priority_after(codec_priority, looked_up) == codec_priority

\* the codec names a call looks up in codec_priority: those of its candidates
formats_looked_up(fmts) ==
    {formats_normalize_codec_name(Get(fmts[i], "vcodec", "")) :
        i \in {j \in 1..Len(fmts) :
                 formats_youtube_category(fmts[j]) \in {"progressive", "video"}}}

-----------------------------------------------------------------------------
(* api/services/resolver.py. *)

\* ThreadPoolExecutor(max_workers=5)
max_workers == 5

\* any(re.search(pattern, url, re.IGNORECASE) for pattern in wrapper_patterns):
\* rule34video\.com/get_file/  and  eporner\.com/.*redirect
\* u the lower-cased url; file, host and word the literal parts of the
\* patterns
resolver_wrapper_found(u, file, host, word) ==
        \/ Contains(u, file)
        \/ \E i \in 1..(Len(u) - Len(host) + 1) :
              /\ SubSeq(u, i, i + Len(host) - 1) = host
              /\ \E j \in (i + Len(host))..(Len(u) - Len(word) + 1) :
                    SubSeq(u, j, j + Len(word) - 1) = word

resolver_is_wrapper(url) ==
    resolver_wrapper_found(Lower(Chars(url)), Chars("rule34video.com/get_file/"),
                           Chars("eporner.com/"), Chars("redirect"))

\* HTTP_CLIENT.head(url) raised
HttpError == "error"

\* urlunparse of the final URL with the query keys download and
\* download_filename removed, for the final URLs drawn
resolver_cleaned(final_url) ==
    CASE final_url = "cdn.example/1.mp4?download=1" -> "cdn.example/1.mp4"
      [] OTHER -> final_url

\* resolve_media_url(url), `response` being the final URL HTTP_CLIENT.head
\* reached, or HttpError
resolve_media_url(url, response) ==
    IF ~resolver_is_wrapper(url) THEN url
    ELSE IF response = HttpError THEN url
    ELSE IF Contains(Chars(response), Chars("youtube.com"))
            \/ Contains(Chars(response), Chars("youtu.be")) THEN url
    ELSE resolver_cleaned(response)

\* to_resolve: the positions (from 1) of the URLs that match a wrapper pattern
RECURSIVE resolver_to_resolve(_, _)
resolver_to_resolve(urls, index) ==
    IF index > Len(urls) THEN <<>>
    ELSE (IF resolver_is_wrapper(urls[index]) THEN <<index>> ELSE <<>>)
         \o resolver_to_resolve(urls, index + 1)

\* future_map: one future per entry of to_resolve, with the index it maps to
resolver_future_map(urls) ==
    LET to_resolve == resolver_to_resolve(urls, 1) IN
    [k \in 1..Len(to_resolve) |->
        [idx |-> to_resolve[k], url |-> urls[to_resolve[k]], state |-> "pending",
         value |-> "", collected |-> FALSE]]

\* mutant of resolver_store: the slot is the future's place in future_map
resolver_store_by_place(result, urls, futures, k) ==
    [result EXCEPT ![k] = IF futures[k].state = "raised" THEN urls[futures[k].idx]
                          ELSE futures[k].value]

\* the body of the loop over as_completed for the k-th future:
\* result[idx] = future.result(), or urls[idx] when result() raises
resolver_store(result, urls, futures, k) ==
    [result EXCEPT ![futures[k].idx] =
        IF futures[k].state = "raised" THEN urls[futures[k].idx] ELSE futures[k].value]

-----------------------------------------------------------------------------
(* The statements of the format-processing functions that change an object  *)
(* in place (list.sort, del, item assignment), each with the object it acts  *)
(* on.  "formats" is the caller's list, "fmt" a dict of that list; every     *)
(* other name is an object created inside the call.                          *)

InPlace(op, on, key, arg) == [op |-> op, on |-> on, key |-> key, arg |-> arg]

\* the sort keys of the functions
InPlaceSortKey(key, arg, f) ==
    CASE key = "candidate"      -> extract_candidate_key(f)
      [] key = "height_codec"   -> extract_height_codec_key(f)
      [] key = "height"         -> <<-Get(f, "height", 0)>>
      [] key = "bitrate"        -> <<-extract_bitrate_of(f)>>
      [] key = "abr_distance"   -> <<Abs(Get(f, "abr", 0) - arg)>>
      [] key = "codec_priority" ->
            <<formats_codec_priority(formats_normalize_codec_name(Get(f, "vcodec", "")))>>

\* the caller's list after one in-place statement
ApplyInPlace(fmts, st) ==
    IF st.on = "formats" /\ st.op = "sort"
    THEN SortedBy(fmts, LAMBDA f : InPlaceSortKey(st.key, st.arg, f))
    ELSE IF st.on = "formats" /\ st.op = "del"
    THEN SelectSeq(fmts, LAMBDA f : Get(f, "height", 0) # st.arg)
    ELSE IF st.on = "fmt" /\ st.op = "setitem"
    THEN [i \in 1..Len(fmts) |->
            [k \in DOMAIN fmts[i] \cup {st.key} |->
                IF k = st.key THEN st.arg ELSE fmts[i][k]]]
    ELSE fmts

\* the caller's list after the statements, in order
RECURSIVE CallerListAfter(_, _)
CallerListAfter(fmts, statements) ==
    IF statements = <<>> THEN fmts
    ELSE CallerListAfter(ApplyInPlace(fmts, Head(statements)), Tail(statements))

\* api/extract.py, process_video_formats: source['size'] = ... on the dict
\* built at 995; candidates.sort on a list of by_height, created at 1018-1019;
\* del on by_height, created at 972
extract_process_video_formats_in_place(fmts) ==
    <<InPlace("setitem", "source", "size", 0),
      InPlace("sort", "by_height[h]", "candidate", 0),
      InPlace("del", "by_height", "", 0)>>

\* api/extract.py, process_audio_formats: sorted() builds a new list;
\* other_sources.sort acts on the list built by the comprehension at 1109
extract_process_audio_formats_in_place(audio_sources) ==
    <<InPlace("sort", "other_sources", "bitrate", 0)>>

\* mutant of extract_process_youtube_formats_in_place: the first sort acts on
\* the caller's list
extract_process_youtube_formats_in_place_caller(fmts, with_hls) ==
    <<InPlace("sort", "formats", "height_codec", 0)>>

\* api/extract.py, process_youtube_formats: the three sorts act on
\* progressive_formats, dash_video_formats and hls_formats, created at
\* 1231-1234; source['size'] = ... on the dict build_source creates
extract_process_youtube_formats_in_place(fmts, with_hls) ==
    <<InPlace("sort", "progressive_formats", "height_codec", 0),
      InPlace("setitem", "source", "size", 0),
      InPlace("sort", "dash_video_formats", "height_codec", 0)>>
    \o (IF with_hls /\ extract_of_category(fmts, "hls") # <<>>
        THEN <<InPlace("sort", "hls_formats", "height", 0),
               InPlace("setitem", "hls_source", "size", 0)>>
        ELSE <<>>)

\* api/services/formats.py, process_audio_formats: candidates.sort acts on a
\* list of by_codec, created at 178
formats_process_audio_formats_in_place(audio_formats, target) ==
    <<InPlace("sort", "by_codec[codec]", "abr_distance", target)>>

\* api/services/formats.py, process_video_formats: candidates.sort acts on a
\* list of by_height, created at 226; then process_audio_formats(audios)
formats_process_video_formats_in_place(fmts) ==
    <<InPlace("sort", "by_height[h]", "codec_priority", 0)>>
    \o formats_process_audio_formats_in_place(formats_of_category(fmts, "audio"), 128)

\* api/services/formats.py, process_youtube_formats: candidates.sort acts on a
\* list of by_height_codec, created at 291; then process_audio_formats(audios)
formats_process_youtube_formats_in_place(fmts) ==
    <<InPlace("sort", "by_height_codec[key]", "codec_priority", 0)>>
    \o formats_process_audio_formats_in_place(formats_of_category(fmts, "audio"), 128)

-----------------------------------------------------------------------------
(* The inputs drawn. *)

\* DEFAULT_TARGET_HEIGHTS
DEFAULT_TARGET_HEIGHTS == <<1080, 720, 480, 360>>

\* target-height lists: the default, a single target, two targets that
\* share buckets within tolerance
TargetLists == {DEFAULT_TARGET_HEIGHTS, <<720>>, <<720, 700>>}

\* height_tolerance in percent: the values the callers pass (0.1, 0.15)
Tolerances == {10, 15}

VideoUrl == "v.mp4"
HlsUrl   == "v.m3u8"
AudioUrl == "a.m4a"

\* formats with a video codec: progressive (with audio) and video-only
VideoFormats ==
    [url : {VideoUrl}, vcodec : {"avc1", "vp9"}, acodec : {"mp4a", "none"},
     height : {648, 720, 1080}, width : {1280}]

\* an audio-only format, a format without url, a format without height
OddFormats ==
    {[url |-> AudioUrl, vcodec |-> "none", acodec |-> "mp4a", abr |-> 128],
     [vcodec |-> "avc1", acodec |-> "mp4a", height |-> 720, width |-> 1280],
     [url |-> VideoUrl, vcodec |-> "avc1", acodec |-> "none"]}

\* formats just outside the 10% tolerance of 720
BoundaryFormats ==
    [url : {VideoUrl}, vcodec : {"avc1"}, acodec : {"mp4a", "none"},
     height : {647}, width : {1280}]

\* HLS formats, muxed and video-only
HlsFormats ==
    [url : {HlsUrl}, vcodec : {"avc1"}, acodec : {"mp4a", "none"},
     height : {720}, width : {1280}]

\* audio-only formats; abr may be missing
AudioFormats ==
    [url : {AudioUrl}, vcodec : {"none"}, acodec : {"mp4a", "opus", "mp3", "pcm"},
     abr : {96, 128, 192}]
    \cup [url : {AudioUrl}, vcodec : {"none"}, acodec : {"mp4a", "opus", "mp3", "pcm"}]

\* target_bitrate
TargetBitrates == {100, 128}

\* the fields a format may lack or carry as None
NullableFields == {"height", "width", "fps", "abr", "vcodec", "acodec", "ext", "format_note"}

\* the dict with d[k] = None
WithNone(d, k) ==
    [x \in DOMAIN d \cup {k} |->
        IF x # k THEN d[x]
        ELSE IF k \in {"height", "width", "fps", "abr"} THEN NoneInt ELSE None]

\* the dict without the key k
Without(d, k) == [x \in DOMAIN d \ {k} |-> d[x]]

\* complete formats: progressive, audio-only, HLS
CompleteFormats ==
    {[url |-> VideoUrl, vcodec |-> "avc1", acodec |-> "mp4a", height |-> 720,
      width |-> 1280, fps |-> 60, abr |-> 128, ext |-> "mp4", format_note |-> "HD"],
     [url |-> AudioUrl, vcodec |-> "none", acodec |-> "mp4a", height |-> 0,
      width |-> 0, fps |-> 0, abr |-> 128, ext |-> "m4a", format_note |-> "medium"],
     [url |-> HlsUrl, vcodec |-> "avc1", acodec |-> "mp4a", height |-> 720,
      width |-> 1280, fps |-> 30, abr |-> 128, ext |-> "mp4", format_note |-> "HD"]}

\* formats with a url in which one field is absent or None
MalformedFormats ==
    CompleteFormats
    \cup UNION {{WithNone(d, k), Without(d, k)} : d \in CompleteFormats, k \in NullableFields}

SeqsUpTo(S, n) == UNION {[1..k -> S] : k \in 0..n}

NoOutput == [video |-> <<>>, audio |-> <<>>, hls |-> <<>>, picked |-> <<>>]

\* CODEC_PRIORITY and TARGET_HEIGHTS as api/services/formats.py defines them
FormatsModule ==
    [CODEC_PRIORITY |-> [c \in {"H.264", "VP9", "AV1", "HEVC"} |->
                            CASE c = "H.264" -> 0 [] c = "VP9" -> 1
                              [] c = "AV1" -> 2 [] c = "HEVC" -> 3],
     TARGET_HEIGHTS |-> <<1080, 720, 480, 360, 240, 144>>]

\* no request, no invocation logged, no worker task: the state of the
\* service layer while a format-processing function is called on its own
ServicesIdle ==
    /\ module_state = FormatsModule
    /\ calls = <<>>
    /\ request = <<>>
    /\ tasks = <<>>

-----------------------------------------------------------------------------
(* The generic pipeline called once on a drawn input. *)

InitGeneric ==
    /\ formats \in SeqsUpTo(VideoFormats \cup OddFormats \cup BoundaryFormats, MaxFormats)
    /\ target_heights \in TargetLists
    /\ height_tolerance \in Tolerances
    /\ max_progressive_height = 720
    /\ include_hls = TRUE
    /\ target_bitrate = 128
    /\ pc = "start"
    /\ out = NoOutput
    /\ ServicesIdle

CallExtractProcessVideoFormats ==
    /\ pc = "start"
    /\ IF extract_process_video_formats_raises(formats, target_heights)
       THEN /\ out' = NoOutput
            /\ pc' = "TypeError"
       ELSE /\ out' = extract_process_video_formats(formats, target_heights,
                                                    height_tolerance)
            /\ pc' = "extract_process_video_formats"
    /\ formats' = CallerListAfter(formats, extract_process_video_formats_in_place(formats))
    /\ UNCHANGED <<target_heights, height_tolerance, max_progressive_height,
                   include_hls, target_bitrate, module_state, calls, request, tasks>>

NextGeneric == CallExtractProcessVideoFormats

SpecGeneric == InitGeneric /\ [][NextGeneric]_vars

-----------------------------------------------------------------------------
(* The progressive-priority pipeline of api/extract.py called once. *)

InitYoutube ==
    /\ formats \in SeqsUpTo(VideoFormats \cup OddFormats \cup HlsFormats, MaxFormats)
    /\ target_heights \in {DEFAULT_TARGET_HEIGHTS, <<720, 700>>}
    /\ height_tolerance = 10
    /\ max_progressive_height \in {720, 1080}
    /\ include_hls \in BOOLEAN
    /\ target_bitrate = 128
    /\ pc = "start"
    /\ out = NoOutput
    /\ ServicesIdle

CallExtractProcessYoutubeFormats ==
    /\ pc = "start"
    /\ IF extract_process_youtube_formats_raises(formats, include_hls)
       THEN /\ out' = NoOutput
            /\ pc' = "TypeError"
       ELSE /\ out' = extract_process_youtube_formats(formats, max_progressive_height,
                                                      target_heights, include_hls)
            /\ pc' = "extract_process_youtube_formats"
    /\ formats' = CallerListAfter(formats, extract_process_youtube_formats_in_place(formats, include_hls))
    /\ UNCHANGED <<target_heights, height_tolerance, max_progressive_height,
                   include_hls, target_bitrate, module_state, calls, request, tasks>>

NextYoutube == CallExtractProcessYoutubeFormats

SpecYoutube == InitYoutube /\ [][NextYoutube]_vars

-----------------------------------------------------------------------------
(* process_youtube_formats of api/services/formats.py called once. *)

InitFormatsYoutube ==
    /\ formats \in SeqsUpTo(VideoFormats \cup OddFormats \cup HlsFormats, MaxFormats)
    /\ target_heights = DEFAULT_TARGET_HEIGHTS
    /\ height_tolerance = 10
    /\ max_progressive_height = 720
    /\ include_hls \in BOOLEAN
    /\ target_bitrate = 128
    /\ pc = "start"
    /\ out = NoOutput
    /\ ServicesIdle

CallFormatsProcessYoutubeFormats ==
    /\ pc = "start"
    /\ out' = formats_process_youtube_formats(formats, include_hls)
    /\ pc' = "formats_process_youtube_formats"
    /\ formats' = CallerListAfter(formats, formats_process_youtube_formats_in_place(formats))
    /\ UNCHANGED <<target_heights, height_tolerance, max_progressive_height,
                   include_hls, target_bitrate, module_state, calls, request, tasks>>

NextFormatsYoutube == CallFormatsProcessYoutubeFormats

SpecFormatsYoutube == InitFormatsYoutube /\ [][NextFormatsYoutube]_vars

-----------------------------------------------------------------------------
(* The two audio selectors, each called once on a drawn audio format list. *)

InitAudio ==
    /\ formats \in SeqsUpTo(AudioFormats, MaxAudio)
    /\ target_heights = DEFAULT_TARGET_HEIGHTS
    /\ height_tolerance = 10
    /\ max_progressive_height = 720
    /\ include_hls = TRUE
    /\ target_bitrate \in TargetBitrates
    /\ pc = "start"
    /\ out = NoOutput
    /\ ServicesIdle

\* the callers of api/extract.py pass the audio list process_video_formats built
CallExtractProcessAudioFormats ==
    /\ pc = "start"
    /\ out' = [NoOutput EXCEPT !.audio =
                 extract_process_audio_formats(
                     extract_process_video_formats(formats, target_heights,
                                                   height_tolerance).audio,
                     target_bitrate)]
    /\ pc' = "extract_process_audio_formats"
    /\ formats' = CallerListAfter(formats, extract_process_video_formats_in_place(formats))
    /\ UNCHANGED <<target_heights, height_tolerance, max_progressive_height,
                   include_hls, target_bitrate, module_state, calls, request, tasks>>

CallFormatsProcessAudioFormats ==
    /\ pc = "start"
    /\ out' = [NoOutput EXCEPT !.audio =
                 formats_process_audio_formats(formats, target_bitrate)]
    /\ pc' = "formats_process_audio_formats"
    /\ formats' = CallerListAfter(formats, formats_process_audio_formats_in_place(formats, target_bitrate))
    /\ UNCHANGED <<target_heights, height_tolerance, max_progressive_height,
                   include_hls, target_bitrate, module_state, calls, request, tasks>>

NextAudio == CallExtractProcessAudioFormats \/ CallFormatsProcessAudioFormats

SpecAudio == InitAudio /\ [][NextAudio]_vars

-----------------------------------------------------------------------------
(* Every format-processing function called once on a caller's list. *)

\* the dicts of the caller's list: raw formats of every category, and audio
\* Sources as process_video_formats of api/extract.py builds them
FrameDicts ==
    {[url |-> VideoUrl, vcodec |-> "avc1", acodec |-> "mp4a", height |-> 648, width |-> 1280],
     [url |-> VideoUrl, vcodec |-> "vp9", acodec |-> "mp4a", height |-> 720, width |-> 1280],
     [url |-> VideoUrl, vcodec |-> "vp9", acodec |-> "none", height |-> 720, width |-> 1280],
     [url |-> VideoUrl, vcodec |-> "avc1", acodec |-> "none", height |-> 720, width |-> 1280],
     [url |-> HlsUrl, vcodec |-> "avc1", acodec |-> "mp4a", height |-> 1080, width |-> 1920],
     [url |-> AudioUrl, vcodec |-> "none", acodec |-> "mp4a", abr |-> 192],
     [url |-> AudioUrl, vcodec |-> "none", acodec |-> "mp4a", abr |-> 128],
     extract_audio_source([url |-> AudioUrl, vcodec |-> "none", acodec |-> "pcm", abr |-> 96]),
     extract_audio_source([url |-> AudioUrl, vcodec |-> "none", acodec |-> "pcm", abr |-> 192])}

InitFrame ==
    /\ formats \in SeqsUpTo(FrameDicts, MaxFormats)
    /\ target_heights = DEFAULT_TARGET_HEIGHTS
    /\ height_tolerance = 10
    /\ max_progressive_height = 720
    /\ include_hls = TRUE
    /\ target_bitrate = 128
    /\ pc = "start"
    /\ out = NoOutput
    /\ ServicesIdle

\* process_audio_formats of api/extract.py called on the caller's list of
\* audio Sources
CallExtractProcessAudioFormatsDirect ==
    /\ pc = "start"
    /\ out' = [NoOutput EXCEPT !.audio =
                 extract_process_audio_formats(formats, target_bitrate)]
    /\ pc' = "extract_process_audio_formats"
    /\ formats' = CallerListAfter(formats, extract_process_audio_formats_in_place(formats))
    /\ UNCHANGED <<target_heights, height_tolerance, max_progressive_height,
                   include_hls, target_bitrate, module_state, calls, request, tasks>>

\* process_video_formats of api/services/formats.py with the defaults
CallFormatsProcessVideoFormats ==
    /\ pc = "start"
    /\ out' = formats_process_video_formats(formats, module_state.TARGET_HEIGHTS,
                                            module_state.CODEC_PRIORITY)
    /\ pc' = "formats_process_video_formats"
    /\ formats' = CallerListAfter(formats, formats_process_video_formats_in_place(formats))
    /\ UNCHANGED <<target_heights, height_tolerance, max_progressive_height,
                   include_hls, target_bitrate, module_state, calls, request, tasks>>

NextFrame ==
    \/ CallExtractProcessVideoFormats
    \/ CallExtractProcessYoutubeFormats
    \/ CallExtractProcessAudioFormatsDirect
    \/ CallFormatsProcessVideoFormats
    \/ CallFormatsProcessYoutubeFormats
    \/ CallFormatsProcessAudioFormats

SpecFrame == InitFrame /\ [][NextFrame]_vars

-----------------------------------------------------------------------------
(* A session of api/services/formats.py: invocations one after another in   *)
(* one process, all sharing the module-level objects.                        *)

\* the format lists the callers of a session pass: video-only formats of two
\* codecs at one height in both orders, and a list with a progressive format
SessionLists ==
    LET vp9  == [url |-> VideoUrl, vcodec |-> "vp9", acodec |-> "none",
                 height |-> 720, width |-> 1280]
        avc1 == [url |-> VideoUrl, vcodec |-> "avc1", acodec |-> "none",
                 height |-> 720, width |-> 1280]
        prog == [url |-> VideoUrl, vcodec |-> "avc1", acodec |-> "mp4a",
                 height |-> 480, width |-> 854]
    IN  {<<>>, <<vp9>>, <<vp9, avc1>>, <<avc1, vp9>>, <<vp9, prog>>}

InitSession ==
    /\ formats = <<>>
    /\ target_heights = DEFAULT_TARGET_HEIGHTS
    /\ height_tolerance = 10
    /\ max_progressive_height = 720
    /\ include_hls \in BOOLEAN
    /\ target_bitrate = 128
    /\ pc = "start"
    /\ out = NoOutput
    /\ ServicesIdle

\* one invocation of process_video_formats with the default target_heights
\* and codec_priority
InvokeFormatsProcessVideoFormats ==
    /\ Len(calls) < MaxCalls
    /\ \E fmts \in SessionLists :
         LET r == formats_process_video_formats(fmts, module_state.TARGET_HEIGHTS,
                                                module_state.CODEC_PRIORITY) IN
         /\ formats' = fmts
         /\ out' = r
         /\ calls' = Append(calls, [fn |-> "formats_process_video_formats",
                                    formats |-> fmts, include_hls |-> include_hls,
                                    result |-> r])
         /\ module_state' = [module_state EXCEPT !.CODEC_PRIORITY =
                                formats_codec_priority_after(@, formats_looked_up(fmts))]
    /\ pc' = "formats_process_video_formats"
    /\ UNCHANGED <<target_heights, height_tolerance, max_progressive_height,
                   include_hls, target_bitrate, request, tasks>>

\* one invocation of process_youtube_formats with the defaults
InvokeFormatsProcessYoutubeFormats ==
    /\ Len(calls) < MaxCalls
    /\ \E fmts \in SessionLists :
         LET r == formats_process_youtube_formats(fmts, include_hls) IN
         /\ formats' = fmts
         /\ out' = r
         /\ calls' = Append(calls, [fn |-> "formats_process_youtube_formats",
                                    formats |-> fmts, include_hls |-> include_hls,
                                    result |-> r])
         /\ module_state' = [module_state EXCEPT !.CODEC_PRIORITY =
                                formats_codec_priority_after(@, formats_looked_up(fmts))]
    /\ pc' = "formats_process_youtube_formats"
    /\ UNCHANGED <<target_heights, height_tolerance, max_progressive_height,
                   include_hls, target_bitrate, request, tasks>>

NextSession == InvokeFormatsProcessVideoFormats \/ InvokeFormatsProcessYoutubeFormats

SpecSession == InitSession /\ [][NextSession]_vars

-----------------------------------------------------------------------------
(* resolve_media_urls_parallel: the calling thread and the pool's workers. *)

\* a URL no pattern matches and one URL for each wrapper pattern
ResolverUrls == {"example.com/video.mp4", "rule34video.com/get_file/1",
                 "eporner.com/v/redirect"}

\* the final URLs HTTP_CLIENT.head(url) may reach
ResolverResponses(url) ==
    IF url = "rule34video.com/get_file/1"
    THEN {"cdn.example/1.mp4?download=1", "youtube.com/watch"}
    ELSE {"cdn.example/2.mp4"}

\* the lists given to the resolver: up to MaxUrls urls, the eporner redirect
\* at most once
ResolverLists ==
    {urls \in SeqsUpTo(ResolverUrls, MaxUrls) :
        Cardinality({i \in 1..Len(urls) : urls[i] = "eporner.com/v/redirect"}) <= 1}

InitResolver ==
    /\ formats = <<>>
    /\ target_heights = DEFAULT_TARGET_HEIGHTS
    /\ height_tolerance = 10
    /\ max_progressive_height = 720
    /\ include_hls = TRUE
    /\ target_bitrate = 128
    /\ pc = "start"
    /\ out = <<>>
    /\ module_state = FormatsModule
    /\ calls = <<>>
    /\ request \in ResolverLists
    /\ tasks = <<>>

\* the calling thread up to the submissions: returns urls when nothing is to
\* resolve, else copies urls into result and submits one task per entry
ResolverSubmit ==
    /\ pc = "start"
    /\ IF resolver_to_resolve(request, 1) = <<>>
       THEN /\ out' = request
            /\ pc' = "resolve_media_urls_parallel"
            /\ UNCHANGED tasks
       ELSE /\ out' = request
            /\ tasks' = resolver_future_map(request)
            /\ pc' = "as_completed"
    /\ UNCHANGED <<formats, target_heights, height_tolerance, max_progressive_height,
                   include_hls, target_bitrate, module_state, calls, request>>

\* a worker thread of the pool takes a pending task
WorkerStart(k) ==
    /\ tasks[k].state = "pending"
    /\ Cardinality({j \in 1..Len(tasks) : tasks[j].state = "running"}) < max_workers
    /\ tasks' = [tasks EXCEPT ![k].state = "running"]
    /\ UNCHANGED <<formats, target_heights, height_tolerance, max_progressive_height,
                   include_hls, target_bitrate, pc, out, module_state, calls, request>>

\* the worker's resolve_media_url(url) ends: with a value, for any response of
\* the HTTP client, or with an exception stored in the future
WorkerFinish(k) ==
    /\ tasks[k].state = "running"
    /\ \/ \E response \in ResolverResponses(tasks[k].url) \cup {HttpError} :
            tasks' = [tasks EXCEPT ![k].state = "finished",
                                   ![k].value = resolve_media_url(tasks[k].url, response)]
       \/ tasks' = [tasks EXCEPT ![k].state = "raised"]
    /\ UNCHANGED <<formats, target_heights, height_tolerance, max_progressive_height,
                   include_hls, target_bitrate, pc, out, module_state, calls, request>>

\* one iteration of the loop over as_completed(future_map): any completed
\* future not yet yielded
ResolverCollect(k) ==
    /\ pc = "as_completed"
    /\ tasks[k].state \in {"finished", "raised"}
    /\ ~tasks[k].collected
    /\ out' = resolver_store(out, request, tasks, k)
    /\ tasks' = [tasks EXCEPT ![k].collected = TRUE]
    /\ UNCHANGED <<formats, target_heights, height_tolerance, max_progressive_height,
                   include_hls, target_bitrate, pc, module_state, calls, request>>

\* as_completed is exhausted, the executor is shut down, result is returned
ResolverReturn ==
    /\ pc = "as_completed"
    /\ \A k \in 1..Len(tasks) : tasks[k].collected
    /\ pc' = "resolve_media_urls_parallel"
    /\ UNCHANGED <<formats, target_heights, height_tolerance, max_progressive_height,
                   include_hls, target_bitrate, out, module_state, calls, request, tasks>>

NextResolver ==
    \/ ResolverSubmit
    \/ \E k \in 1..Len(tasks) : WorkerStart(k) \/ WorkerFinish(k) \/ ResolverCollect(k)
    \/ ResolverReturn

\* every task ends (the HTTP client has a timeout of 10 s) and the calling
\* thread keeps running
SpecResolver == InitResolver /\ [][NextResolver]_vars /\ WF_vars(NextResolver)

-----------------------------------------------------------------------------
(* Both pipelines of api/extract.py on formats with absent and None fields. *)

InitMalformed ==
    /\ formats \in SeqsUpTo(MalformedFormats, MaxMalformed)
    /\ target_heights \in {DEFAULT_TARGET_HEIGHTS, <<>>}
    /\ height_tolerance = 10
    /\ max_progressive_height = 720
    /\ include_hls \in BOOLEAN
    /\ target_bitrate = 128
    /\ pc = "start"
    /\ out = NoOutput
    /\ ServicesIdle

NextMalformed == CallExtractProcessVideoFormats \/ CallExtractProcessYoutubeFormats

SpecMalformed == InitMalformed /\ [][NextMalformed]_vars

-----------------------------------------------------------------------------
(* Properties of the generic pipeline (api/extract.py), under SpecGeneric. *)

\* an input format that process_video_formats groups into a height bucket
InBucket(f, h) ==
    /\ "url" \in DOMAIN f
    /\ f.vcodec # "none"
    /\ Get(f, "height", 0) = h

\* the index of a target is among the picks
TargetPicked(i) == \E k \in 1..Len(out.picked) : out.picked[k].target = i

\* C1: the video list of process_video_formats holds at most one Source per
\* target height: it is never longer than the target list, its Sources come
\* from pairwise different height buckets and from successive, pairwise
\* different targets, and each comes from a bucket of the input that lies
\* within tolerance of its target (so a target with no bucket within
\* tolerance contributes nothing).
C1_OneSourcePerTarget ==
    pc = "extract_process_video_formats" =>
        /\ Len(out.video) <= Len(target_heights)
        /\ Len(out.picked) = Len(out.video)
        /\ \A i, j \in 1..Len(out.picked) : i < j =>
              /\ out.picked[i].bucket # out.picked[j].bucket
              /\ out.picked[i].target < out.picked[j].target
        /\ \A i \in 1..Len(out.picked) :
              LET t == target_heights[out.picked[i].target]
                  h == out.picked[i].bucket
              IN  /\ Abs(h - t) * 100 <= t * height_tolerance
                  /\ \E k \in 1..Len(formats) : InBucket(formats[k], h)

\* two targets that share buckets each got a Source from a different bucket
C1_Witness ==
    /\ pc = "extract_process_video_formats"
    /\ target_heights = <<720, 700>>
    /\ Len(out.video) = 2
    /\ out.picked[1].bucket = 720
    /\ out.picked[2].bucket = 648

\* C7: the tolerance bound is inclusive.  A target gets a Source exactly
\* when some bucket not taken by an earlier target lies within
\* |h - t| <= t * tolerance; with target_heights = [720] and tolerance 0.1 a
\* lone video format of height 648 is returned and one of height 647 is not.
C7_ToleranceBoundary ==
    pc = "extract_process_video_formats" =>
        /\ \A i \in 1..Len(target_heights) :
              TargetPicked(i) <=>
                \E k \in 1..Len(formats) :
                    LET h == Get(formats[k], "height", 0) IN
                    /\ InBucket(formats[k], h)
                    /\ Abs(h - target_heights[i]) * 100 <= target_heights[i] * height_tolerance
                    /\ ~\E m \in 1..Len(out.picked) :
                           out.picked[m].target < i /\ out.picked[m].bucket = h
        /\ (target_heights = <<720>> /\ height_tolerance = 10 /\ Len(formats) = 1
            /\ InBucket(formats[1], 648)) => Len(out.video) = 1
        /\ (target_heights = <<720>> /\ height_tolerance = 10 /\ Len(formats) = 1
            /\ InBucket(formats[1], 647)) => out.video = <<>>

\* the lone format of height 648 was returned for target 720 at 10%
C7_Witness ==
    /\ pc = "extract_process_video_formats"
    /\ target_heights = <<720>>
    /\ height_tolerance = 10
    /\ Len(formats) = 1
    /\ InBucket(formats[1], 648)
    /\ Len(out.video) = 1

-----------------------------------------------------------------------------
(* Properties of the progressive-priority pipeline of api/extract.py,      *)
(* under SpecYoutube.                                                      *)

\* the heights of the input formats of one category
HeightsOfCategory(category) ==
    {Get(formats[k], "height", 0) :
        k \in {n \in 1..Len(formats) : extract_youtube_category(formats[n]) = category}}

\* C2 (as claimed): in the video list and in the HLS list of
\* process_youtube_formats, hasAudio is false exactly when needsMerge is true.
C2_FlagInvariant ==
    pc = "extract_process_youtube_formats" =>
        /\ \A i \in 1..Len(out.video) : out.video[i].hasAudio = ~out.video[i].needsMerge
        /\ \A i \in 1..Len(out.hls) : out.hls[i].hasAudio = ~out.hls[i].needsMerge

\* C3 (as claimed): at every height that has both a progressive and a
\* video-only format, the video list has a progressive Source (hasAudio) and
\* no video-only Source (needsMerge) of that height, also above
\* max_progressive_height.
C3_ProgressivePrecedenceAnyHeight ==
    pc = "extract_process_youtube_formats" =>
        \A h \in HeightsOfCategory("progressive") \cap HeightsOfCategory("dash") :
            /\ \E i \in 1..Len(out.video) : out.picked[i].bucket = h /\ out.video[i].hasAudio
            /\ ~\E i \in 1..Len(out.video) : out.picked[i].bucket = h /\ out.video[i].needsMerge

\* C3 (amended): at every height up to max_progressive_height that has both
\* a progressive and a video-only format (formats with a url that are not
\* HLS), the video list has a progressive Source (hasAudio = true,
\* needsMerge = false) of that height and no video-only Source of that height.
C3_ProgressivePrecedenceUpToCeiling ==
    pc = "extract_process_youtube_formats" =>
        \A h \in HeightsOfCategory("progressive") \cap HeightsOfCategory("dash") :
            h <= max_progressive_height =>
                /\ \E i \in 1..Len(out.video) :
                      /\ out.picked[i].bucket = h
                      /\ out.video[i].hasAudio
                      /\ ~out.video[i].needsMerge
                /\ ~\E i \in 1..Len(out.video) :
                       out.picked[i].bucket = h /\ out.video[i].needsMerge

\* a progressive and a video-only format at 720, the ceiling 720: the call
\* returned the progressive Source of height 720
C3_Witness ==
    /\ pc = "extract_process_youtube_formats"
    /\ max_progressive_height = 720
    /\ 720 \in HeightsOfCategory("progressive") \cap HeightsOfCategory("dash")
    /\ \E i \in 1..Len(out.video) : out.picked[i].bucket = 720 /\ out.video[i].hasAudio

\* C6 (as claimed): for every target height t the video list of
\* process_youtube_formats has at most one Source whose height h satisfies
\* |h - t| <= t * 0.1.
C6_OneSourcePerTargetYoutube ==
    pc = "extract_process_youtube_formats" =>
        \A n \in 1..Len(target_heights) :
            \A i, j \in 1..Len(out.video) :
                (/\ Abs(out.picked[i].bucket - target_heights[n]) * 10 <= target_heights[n]
                 /\ Abs(out.picked[j].bucket - target_heights[n]) * 10 <= target_heights[n])
                => i = j

-----------------------------------------------------------------------------
(* Properties of process_youtube_formats of api/services/formats.py, under *)
(* SpecFormatsYoutube.                                                     *)

\* an input format with a url that is not HLS and has a video codec
IsVideoInput(f) == "url" \in DOMAIN f /\ f.url # HlsUrl /\ f.vcodec # "none"

\* progressive: video and audio; video-only: no audio
IsProgressiveInput(f) == IsVideoInput(f) /\ f.acodec # "none"
IsVideoOnlyInput(f) == IsVideoInput(f) /\ f.acodec = "none"

\* the label a format of height h gets (no format_note, no fps are drawn)
HeightLabel(h) == ToString(h) \o "p"

\* C4: in the video list of process_youtube_formats every Source built from a
\* progressive format precedes every Source built from a video-only format,
\* there is one progressive Source per progressive input format, each with
\* hasAudio = true and needsMerge = false; at a height that has both a
\* progressive and a video-only format the first Source labelled with that
\* height is the progressive one.
C4_ProgressiveFirst ==
    pc = "formats_process_youtube_formats" =>
        /\ \A i, j \in 1..Len(out.video) :
              (out.video[i].format = "progressive" /\ out.video[j].format # "progressive")
              => i < j
        /\ Cardinality({i \in 1..Len(out.video) : out.video[i].format = "progressive"})
           = Cardinality({k \in 1..Len(formats) : IsProgressiveInput(formats[k])})
        /\ \A i \in 1..Len(out.video) :
              out.video[i].format = "progressive"
              => (out.video[i].hasAudio /\ ~out.video[i].needsMerge)
        /\ \A h \in {648, 720, 1080} :
              (/\ \E k \in 1..Len(formats) :
                     IsProgressiveInput(formats[k]) /\ Get(formats[k], "height", 0) = h
               /\ \E k \in 1..Len(formats) :
                     IsVideoOnlyInput(formats[k]) /\ Get(formats[k], "height", 0) = h)
              => \E i \in 1..Len(out.video) :
                    /\ out.video[i].quality = HeightLabel(h)
                    /\ out.video[i].format = "progressive"
                    /\ out.video[i].hasAudio
                    /\ \A j \in 1..(i - 1) : out.video[j].quality # HeightLabel(h)

\* a video-only format listed before a progressive one of the same height:
\* the progressive Source came out first, the VP9 video-only Source second
C4_Witness ==
    /\ pc = "formats_process_youtube_formats"
    /\ Len(formats) = 2
    /\ IsVideoOnlyInput(formats[1]) /\ Get(formats[1], "height", 0) = 720
    /\ IsProgressiveInput(formats[2]) /\ Get(formats[2], "height", 0) = 720
    /\ Len(out.video) = 2
    /\ out.video[1].format = "progressive" /\ out.video[1].hasAudio
    /\ out.video[2].needsMerge

-----------------------------------------------------------------------------
(* Properties of the audio selectors, under SpecAudio. *)

\* the canonical codec of the audio tokens drawn ("pcm" is none of the five)
CodecGroup(f) ==
    CASE f.acodec = "mp4a" -> "AAC"
      [] f.acodec = "opus" -> "Opus"
      [] f.acodec = "mp3"  -> "MP3"
      [] OTHER -> "other"

\* the bitrate of an input format, a missing one counting as 0
BitrateOf(f) == IF "abr" \in DOMAIN f THEN f.abr ELSE 0

\* the input formats of one codec group
GroupMembers(codec) == {k \in 1..Len(formats) : CodecGroup(formats[k]) = codec}

\* Source s is a member of the codec group `codec` whose bitrate is nearest
\* to target_bitrate
NearestOfGroup(s, codec) ==
    LET d == Abs(Get(s, "bitrate", 0) - target_bitrate) IN
    /\ \E k \in GroupMembers(codec) : BitrateOf(formats[k]) = Get(s, "bitrate", 0)
    /\ \A k \in GroupMembers(codec) : d <= Abs(BitrateOf(formats[k]) - target_bitrate)

\* C8: every Source process_audio_formats emits for a codec group is a member
\* of that group whose bitrate is nearest to target_bitrate (a missing bitrate
\* counting as 0): in api/services/formats.py for each of the five codecs, in
\* api/extract.py for the AAC and Opus groups pick_best_by_bitrate serves.
C8_NearestBitrate ==
    /\ pc = "formats_process_audio_formats" =>
          \A i \in 1..Len(out.audio) :
              /\ out.audio[i].codec \in {"AAC", "Opus", "MP3", "Vorbis", "FLAC"}
              /\ NearestOfGroup(out.audio[i], out.audio[i].codec)
    /\ pc = "extract_process_audio_formats" =>
          \A i \in 1..Len(out.audio) :
              out.audio[i].codec \in {"AAC", "Opus"}
              => NearestOfGroup(out.audio[i], out.audio[i].codec)

\* AAC at 192 and 96, in that input order, with target 100: the 96 one was
\* emitted by pick_best_by_bitrate
C8_Witness ==
    /\ pc = "extract_process_audio_formats"
    /\ target_bitrate = 100
    /\ Len(formats) = 2
    /\ formats[1].acodec = "mp4a" /\ BitrateOf(formats[1]) = 192
    /\ formats[2].acodec = "mp4a" /\ BitrateOf(formats[2]) = 96
    /\ Len(out.audio) = 1
    /\ out.audio[1].bitrate = 96

\* the codecs of codec_order that have a candidate in the input, in order
RECURSIVE PresentInOrder(_)
PresentInOrder(order) ==
    IF order = <<>> THEN <<>>
    ELSE (IF GroupMembers(Head(order)) # {} THEN <<Head(order)>> ELSE <<>>)
         \o PresentInOrder(Tail(order))

\* C9 (as claimed): process_audio_formats of api/extract.py returns exactly
\* one Source for each codec of AAC, Opus, MP3, Vorbis, FLAC that has a
\* candidate, in that order.
C9_OnePerPreferredCodec ==
    pc = "extract_process_audio_formats" =>
        SelectSeq([i \in 1..Len(out.audio) |-> out.audio[i].codec],
                  LAMBDA c : c \in {"AAC", "Opus", "MP3", "Vorbis", "FLAC"})
        = PresentInOrder(<<"AAC", "Opus", "MP3", "Vorbis", "FLAC">>)

\* C9 (amended): process_audio_formats of api/extract.py returns exactly one
\* Source for each codec of AAC, Opus that has a candidate, AAC before Opus;
\* when neither has a candidate and the input is not empty it returns exactly
\* one Source, of the highest bitrate in the input.
C9_OnePerAacOpus ==
    pc = "extract_process_audio_formats" =>
        IF PresentInOrder(<<"AAC", "Opus">>) # <<>>
        THEN [i \in 1..Len(out.audio) |-> out.audio[i].codec]
             = PresentInOrder(<<"AAC", "Opus">>)
        ELSE IF formats = <<>> THEN out.audio = <<>>
        ELSE /\ Len(out.audio) = 1
             /\ \E k \in 1..Len(formats) : BitrateOf(formats[k]) = Get(out.audio[1], "bitrate", 0)
             /\ \A k \in 1..Len(formats) : BitrateOf(formats[k]) <= Get(out.audio[1], "bitrate", 0)

\* MP3, Opus and AAC candidates, in that input order: an AAC Source, then an
\* Opus Source, and no MP3 Source
C9_Witness ==
    /\ pc = "extract_process_audio_formats"
    /\ Len(formats) = 3
    /\ formats[1].acodec = "mp3" /\ formats[2].acodec = "opus" /\ formats[3].acodec = "mp4a"
    /\ Len(out.audio) = 2
    /\ out.audio[1].codec = "AAC"
    /\ out.audio[2].codec = "Opus"

\* C10 (as claimed): when the input of process_audio_formats of
\* api/services/formats.py is not empty and none of its formats has a codec
\* among AAC, Opus, MP3, Vorbis, FLAC, the result is exactly one Source, built
\* from the input format with the highest bitrate.
C10_FallbackHighestBitrate ==
    (/\ pc = "formats_process_audio_formats"
     /\ formats # <<>>
     /\ \A k \in 1..Len(formats) : CodecGroup(formats[k]) = "other")
    => /\ Len(out.audio) = 1
       /\ \E k \in 1..Len(formats) : BitrateOf(formats[k]) = Get(out.audio[1], "bitrate", 0)
       /\ \A k \in 1..Len(formats) : BitrateOf(formats[k]) <= Get(out.audio[1], "bitrate", 0)

-----------------------------------------------------------------------------
(* Malformed input (api/extract.py), under SpecMalformed. *)

\* C11: process_video_formats and process_youtube_formats return normally for
\* every list of formats that have a url and in which height, width, fps, abr,
\* vcodec, acodec, ext or format_note is absent or None: no call ends in an
\* exception.
C11_NoException == pc # "TypeError"

-----------------------------------------------------------------------------
(* Determinism of api/services/formats.py, under SpecSession. *)

-----------------------------------------------------------------------------
(* Frame condition of the format-processing functions, under SpecFrame. *)

-----------------------------------------------------------------------------
(* resolve_media_urls_parallel, under SpecResolver. *)

\* the returned list against the input and the outcome of each task
ResolverSlotsRight ==
    /\ Len(out) = Len(request)
    /\ \A i \in 1..Len(request) :
          ~resolver_is_wrapper(request[i]) => out[i] = request[i]
    /\ \A k \in 1..Len(tasks) :
          /\ tasks[k].url = request[tasks[k].idx]
          /\ tasks[k].state = "finished" => out[tasks[k].idx] = tasks[k].value
          /\ tasks[k].state = "raised" => out[tasks[k].idx] = request[tasks[k].idx]
    /\ \A i \in 1..Len(request) :
          resolver_is_wrapper(request[i]) => \E k \in 1..Len(tasks) : tasks[k].idx = i

\* C14: for every input list, completion order and outcome of the tasks,
\* resolve_media_urls_parallel returns; the returned list has the input's
\* length, a URL that matches no wrapper pattern is unchanged at its index, and
\* the slot of a wrapper URL holds the result of resolving that URL, or the
\* original URL when its resolution failed.
C14_OrderAndFallback ==
    /\ [](pc = "resolve_media_urls_parallel" => ResolverSlotsRight)
    /\ <>(pc = "resolve_media_urls_parallel")

\* returned with a plain URL first, a resolved wrapper URL and a wrapper URL
\* whose task raised
C14_Witness ==
    /\ pc = "resolve_media_urls_parallel"
    /\ Len(request) = 3
    /\ ~resolver_is_wrapper(request[1])
    /\ Len(tasks) = 2
    /\ tasks[1].state = "finished" /\ out[2] # request[2]
    /\ tasks[2].state = "raised" /\ out[3] = request[3]

-----------------------------------------------------------------------------
(* api/config.py: platform detection.                                      *)

\* the regular expressions of PLATFORM_CONFIG, in the order of the dict: a
\* pattern is the literal `pre`, followed when `word` by \w+ and the literal
\* `post`
Literal(token) == [pre |-> Chars(token), word |-> FALSE, post |-> <<>>]

PLATFORMS ==
    <<[name |-> "youtube",     patterns |-> <<Literal("youtube.com"), Literal("youtu.be"),
                                              Literal("youtube-nocookie.com")>>],
      [name |-> "bilibili",    patterns |-> <<Literal("bilibili.com"), Literal("bilibili.tv"),
                                              Literal("b23.tv")>>],
      [name |-> "reddit",      patterns |-> <<Literal("reddit.com"), Literal("redd.it"),
                                              Literal("v.redd.it")>>],
      [name |-> "soundcloud",  patterns |-> <<Literal("soundcloud.com")>>],
      [name |-> "eporner",     patterns |-> <<Literal("eporner.com")>>],
      [name |-> "rule34video", patterns |-> <<Literal("rule34video.com")>>],
      [name |-> "twitch",      patterns |-> <<[pre |-> Chars("twitch.tv/"), word |-> TRUE,
                                               post |-> Chars("/clip")],
                                              Literal("clips.twitch.tv")>>],
      [name |-> "bandcamp",    patterns |-> <<Literal("bandcamp.com"),
                                              [pre |-> <<>>, word |-> TRUE,
                                               post |-> Chars(".bandcamp.com")]>>],
      [name |-> "weibo",       patterns |-> <<Literal("weibo.com"), Literal("weibo.cn")>>],
      [name |-> "pinterest",   patterns |-> <<Literal("pinterest.com"), Literal("pin.it")>>],
      [name |-> "pixiv",       patterns |-> <<Literal("pixiv.net")>>]>>

\* the platforms whose extractor is yt-dlp, gallery-dl
YTDLP_PLATFORMS == {"youtube", "bilibili", "soundcloud", "eporner", "rule34video",
                    "twitch", "bandcamp"}
GALLERY_DL_PLATFORMS == {"reddit", "weibo", "pinterest"}

\* \w, on lower-cased text
WordChar(c) ==
    c \in {"a", "b", "c", "d", "e", "f", "g", "h", "i", "j", "k", "l", "m", "n", "o",
           "p", "q", "r", "s", "t", "u", "v", "w", "x", "y", "z", "0", "1", "2", "3",
           "4", "5", "6", "7", "8", "9", "_"}

\* a match of pattern in the lower-cased text, pre and post being its parts
re_search_in(pattern, text, pre, post) ==
        \E i \in 1..(Len(text) - Len(pre) + 1) :
            /\ SubSeq(text, i, i + Len(pre) - 1) = pre
            /\ \/ ~pattern.word
               \/ \E j \in (i + Len(pre) + 1)..(Len(text) - Len(post) + 1) :
                     /\ \A k \in (i + Len(pre))..(j - 1) : WordChar(text[k])
                     /\ SubSeq(text, j, j + Len(post) - 1) = post

\* re.search(pattern, url, re.IGNORECASE)
re_search(pattern, url) ==
    re_search_in(pattern, Lower(Chars(url)), pattern.pre, pattern.post)

RECURSIVE detect_platform_from(_, _)
detect_platform_from(url, i) ==
    IF i > Len(PLATFORMS) THEN None
    ELSE IF \E n \in 1..Len(PLATFORMS[i].patterns) : re_search(PLATFORMS[i].patterns[n], url)
         THEN PLATFORMS[i].name
         ELSE detect_platform_from(url, i + 1)

\* detect_platform(url): the first platform one of whose patterns is found
detect_platform(url) == detect_platform_from(url, 1)

-----------------------------------------------------------------------------
(* api/services/transforms.py.                                             *)

\* {to: info.get(from)}, the key left out when the value is None
Renamed(info, from, to) ==
    IF from \in DOMAIN info /\ info[from] # None THEN to :> info[from] ELSE <<>>

\* _stats(info)
transforms_stats(info) ==
    Renamed(info, "view_count", "views") @@ Renamed(info, "like_count", "likes")
    @@ Renamed(info, "comment_count", "comments")

\* info.get("uploader") or info.get("channel") or info.get("artist")
\* or info.get("uploader_id")
transforms_author(info) ==
    IF TruthyStr(Get(info, "uploader", None)) THEN "author" :> info.uploader
    ELSE IF TruthyStr(Get(info, "channel", None)) THEN "author" :> info.channel
    ELSE IF TruthyStr(Get(info, "artist", None)) THEN "author" :> info.artist
    ELSE Renamed(info, "uploader_id", "author")

\* _base_success(platform, content_type, info, items)
transforms_base_success(platform, content_type, info, items) ==
    [success |-> TRUE, platform |-> platform, contentType |-> content_type,
     stats |-> transforms_stats(info), items |-> items]
    @@ Renamed(info, "title", "title") @@ transforms_author(info)
    @@ Renamed(info, "id", "id") @@ Renamed(info, "description", "description")
    @@ Renamed(info, "upload_date", "uploadDate") @@ Renamed(info, "duration", "duration")

RECURSIVE transforms_first_entry_with_formats(_, _, _)
transforms_first_entry_with_formats(entries, i, info) ==
    IF i > Len(entries) THEN info
    ELSE IF Get(entries[i], "formats", <<>>) # <<>> THEN entries[i]
    ELSE transforms_first_entry_with_formats(entries, i + 1, info)

\* _unwrap_playlist_entry_for_youtube(info)
transforms_unwrap_playlist_entry_for_youtube(info) ==
    IF Get(info, "formats", <<>>) # <<>> THEN info
    ELSE transforms_first_entry_with_formats(Get(info, "entries", <<>>), 1, info)

\* an item of the response; thumbnail is info.get("thumbnail")
transforms_item(index, type, info, sources) ==
    [index |-> index, type |-> type, sources |-> sources]
    @@ Renamed(info, "thumbnail", "thumbnail")

\* lines 60-86: the items and the envelope, from the Sources selected
transforms_assemble(platform, transform_info, videos, audios, hls) ==
    LET video_sources == videos \o hls
        fallback == [quality |-> "source", url |-> Get(transform_info, "url", ""),
                     mime |-> "video/mp4", extension |-> "mp4"]
        sources == IF video_sources = <<>> /\ TruthyStr(Get(transform_info, "url", None))
                   THEN <<fallback>> ELSE video_sources
        audio_item == IF audios # <<>>
                      THEN <<transforms_item(1, "audio", transform_info, audios)>>
                      ELSE <<>>
    IN  IF platform = "soundcloud" /\ audios # <<>>
        THEN transforms_base_success(platform, "audio", transform_info,
                 <<[index |-> 0, type |-> "audio",
                    sources |-> formats_process_audio_formats(audios, 128)]>>)
        ELSE transforms_base_success(platform, "video", transform_info,
                 <<transforms_item(0, "video", transform_info, sources)>> \o audio_item)

\* lines 50-54 for the platform "youtube": process_youtube_formats
transforms_select_youtube(platform, transform_info, processed) ==
    transforms_assemble(platform, transform_info, processed.video, processed.audio,
                        processed.hls)

\* lines 50-54 for another platform: process_video_formats, hls = []
transforms_select_other(platform, transform_info, processed) ==
    transforms_assemble(platform, transform_info, processed.video, processed.audio, <<>>)

\* lines 48-54: transform_info, formats and the selection
transforms_for_platform(platform, info) ==
    IF platform = "youtube"
    THEN transforms_select_youtube(platform,
             transforms_unwrap_playlist_entry_for_youtube(info),
             formats_process_youtube_formats(
                 Get(transforms_unwrap_playlist_entry_for_youtube(info), "formats", <<>>),
                 FALSE))
    ELSE transforms_select_other(platform, info,
             formats_process_video_formats(Get(info, "formats", <<>>),
                                           FormatsModule.TARGET_HEIGHTS,
                                           FormatsModule.CODEC_PRIORITY))

\* detect_platform(original_url) or "unknown"
transforms_platform_or_unknown(detected) ==
    IF detected # None THEN detected ELSE "unknown"

\* transform_ytdlp_result(info, original_url)
transform_ytdlp_result(info, original_url) ==
    transforms_for_platform(transforms_platform_or_unknown(detect_platform(original_url)),
                            info)

-----------------------------------------------------------------------------
(* transform_ytdlp_result on its own.                                      *)

\* a progressive format, two video-only formats, two audio-only formats and
\* an HLS format
TransformFormats ==
    {[url |-> VideoUrl, vcodec |-> "avc1", acodec |-> "mp4a", height |-> 720, width |-> 1280],
     [url |-> VideoUrl, vcodec |-> "vp9", acodec |-> "none", height |-> 1080, width |-> 1920],
     [url |-> VideoUrl, vcodec |-> "avc1", acodec |-> "none", height |-> 720, width |-> 1280],
     [url |-> AudioUrl, vcodec |-> "none", acodec |-> "mp4a", abr |-> 128],
     [url |-> AudioUrl, vcodec |-> "none", acodec |-> "opus", abr |-> 96],
     [url |-> HlsUrl, vcodec |-> "avc1", acodec |-> "mp4a", height |-> 720, width |-> 1280]}

\* what extract_info returns: a dict with formats, a dict with a direct url
\* only, a playlist whose entry carries the formats, an empty dict
TransformInfos ==
    {[formats |-> f, title |-> "clip", id |-> "abc"] : f \in SeqsUpTo(TransformFormats, MaxFormats)}
    \cup {[url |-> VideoUrl, title |-> "clip", thumbnail |-> "t.jpg"],
          [entries |-> <<[formats |-> <<[url |-> VideoUrl, vcodec |-> "avc1",
                                         acodec |-> "mp4a", height |-> 720,
                                         width |-> 1280]>>,
                          title |-> "entry"]>>,
           title |-> "list"],
          <<>>}

TransformUrls == {"youtube.com/watch", "YouTube.com/watch", "soundcloud.com/t",
                  "clips.twitch.tv/c", "example.com/video.mp4"}

InitTransform ==
    /\ formats = <<>>
    /\ target_heights = FormatsModule.TARGET_HEIGHTS
    /\ height_tolerance = 10
    /\ max_progressive_height = 720
    /\ include_hls = FALSE
    /\ target_bitrate = 128
    /\ pc = "start"
    /\ out = NoOutput
    /\ module_state = FormatsModule
    /\ calls = <<>>
    /\ request \in [url : TransformUrls, info : TransformInfos]
    /\ tasks = <<>>

CallTransformYtdlpResult ==
    /\ pc = "start"
    /\ out' = transform_ytdlp_result(request.info, request.url)
    /\ pc' = "transform_ytdlp_result"
    /\ UNCHANGED <<formats, target_heights, height_tolerance, max_progressive_height,
                   include_hls, target_bitrate, module_state, calls, request, tasks>>

NextTransform == CallTransformYtdlpResult

SpecTransform == InitTransform /\ [][NextTransform]_vars

\* the items of the response of the given type
ItemsOfType(response, type) ==
    SelectSeq(response.items, LAMBDA item : item.type = type)

\* a Source that carries video without audio
VideoOnlySource(source) ==
    /\ "hasAudio" \in DOMAIN source /\ ~source.hasAudio
    /\ "needsMerge" \in DOMAIN source /\ source.needsMerge

\* C16: the response of transform_ytdlp_result has an Item of type "audio"
\* only if its video Item has at least one video-only Source (hasAudio
\* false, needsMerge true); when every video Source is progressive there is
\* no audio Item.
C16_AudioItemOnlyWithVideoOnlySource ==
    (pc = "transform_ytdlp_result" /\ ItemsOfType(out, "audio") # <<>>)
        => \E i \in 1..Len(out.items) :
              /\ out.items[i].type = "video"
              /\ \E s \in 1..Len(out.items[i].sources) :
                     VideoOnlySource(out.items[i].sources[s])

-----------------------------------------------------------------------------
(* api/errors.py.                                                          *)

\* ERROR_PATTERNS in the order of the dict; each regular expression is
\* written as its alternatives, an optional character expanded into the
\* alternatives with and without it, "." standing for any character
ERROR_PATTERNS ==
    <<[alternatives |-> <<"agerestricted", "age_restricted", "age-restricted", "18+",
                          "mature", "adult.only">>,
       code |-> "AGE_RESTRICTED"],
      [alternatives |-> <<"private", "members.only">>, code |-> "PRIVATE_CONTENT"],
      [alternatives |-> <<"deleted", "removed", "taken.down", "no.longer", "unavailable",
                          "not.available">>,
       code |-> "DELETED_CONTENT"],
      [alternatives |-> <<"login", "sign.in", "authenticate", "session">>,
       code |-> "LOGIN_REQUIRED"],
      [alternatives |-> <<"geoblocked", "geo_blocked", "geo-blocked", "country", "region",
                          "not.available.in.your">>,
       code |-> "GEO_RESTRICTED"],
      [alternatives |-> <<"rate.limit", "too.many", "429", "throttl">>,
       code |-> "RATE_LIMITED"],
      [alternatives |-> <<"timeout", "time.out", "timed.out">>, code |-> "TIMEOUT"],
      [alternatives |-> <<"404", "not.found", "does.not.exist">>, code |-> "DELETED_CONTENT"],
      [alternatives |-> <<"403", "forbidden", "access.denied">>, code |-> "PRIVATE_CONTENT"]>>

\* one alternative found in msg; "." matches any character but a newline,
\* which no message drawn contains
errors_alternative_found(alternative, msg) ==
    LET p == Chars(alternative) IN
    \E i \in 1..(Len(msg) - Len(p) + 1) :
        \A k \in 1..Len(p) : p[k] = "." \/ p[k] = msg[i + k - 1]

RECURSIVE errors_first_match(_, _)
errors_first_match(msg, i) ==
    IF i > Len(ERROR_PATTERNS) THEN "EXTRACTION_FAILED"
    ELSE IF \E n \in 1..Len(ERROR_PATTERNS[i].alternatives) :
                errors_alternative_found(ERROR_PATTERNS[i].alternatives[n], msg)
         THEN ERROR_PATTERNS[i].code
         ELSE errors_first_match(msg, i + 1)

\* detect_error_code(error_message)
detect_error_code(error_message) ==
    IF error_message = "" THEN "EXTRACTION_FAILED"
    ELSE errors_first_match(Lower(Chars(error_message)), 1)

\* create_error_response(code, message)
create_error_response(code, message) ==
    [success |-> FALSE, error |-> [code |-> code, message |-> message]]

-----------------------------------------------------------------------------
(* api/services/ytdlp.py: extract_with_ytdlp, step by step.  `request` is  *)
(* the frame of the call (url, cookie, then platform, cookie_file, info),  *)
(* `calls` the log of the collaborators it invoked, `out` what it returns. *)

\* _get_transformer(platform)
ytdlp_get_transformer(platform) ==
    CASE platform = "twitch"      -> "transform_twitch_result"
      [] platform = "bandcamp"    -> "transform_bandcamp_result"
      [] platform = "eporner"     -> "transform_eporner_result"
      [] platform = "rule34video" -> "transform_nsfw_video_result"
      [] OTHER                    -> "transform_ytdlp_result"

\* the names _get_transformer can return
Transformers == {"transform_twitch_result", "transform_bandcamp_result",
                 "transform_eporner_result", "transform_nsfw_video_result",
                 "transform_ytdlp_result"}

\* mutant of ytdlp_except: the handler falls back to the transformer on an
\* empty info
ytdlp_except_fallback(exc, url, log) ==
    [out   |-> transform_ytdlp_result(<<>>, url),
     calls |-> Append(log, [fn |-> "transform_ytdlp_result", outcome |-> "returned"])]

\* the except clauses: DownloadError -> detect_error_code(str(exc));
\* Exception -> detect_error_code(message) if message else EXTRACTION_FAILED,
\* with the message "yt-dlp extraction failed" when str(exc) is empty
ytdlp_except(exc, url, log) ==
    [out   |-> IF exc.type = "DownloadError"
               THEN create_error_response(detect_error_code(exc.message), exc.message)
               ELSE create_error_response(
                        IF exc.message # "" THEN detect_error_code(exc.message)
                        ELSE "EXTRACTION_FAILED",
                        IF exc.message # "" THEN exc.message
                        ELSE "yt-dlp extraction failed"),
     calls |-> log]

\* what extract_info may return: dicts with formats, a dict with a url only
YtdlpInfos ==
    {[formats |-> f, title |-> "clip", id |-> "abc"] :
        f \in SeqsUpTo({d \in TransformFormats : d.acodec # "opus" /\ d.vcodec # "vp9"},
                       MaxFormats - 1)}
    \cup {[url |-> VideoUrl, title |-> "clip", thumbnail |-> "t.jpg"]}

\* what extract_info or a transformer may raise
YtdlpErrors ==
    [type : {"DownloadError"},
     message : {"Private video", "Sign in to confirm your age",
                "HTTP Error 429: Too Many Requests", "Video unavailable",
                "Unsupported URL", "HTTP Error 403: Forbidden",
                "This video is age-restricted and private"}]
    \cup [type : {"Exception"}, message : {"", "boom", "Video unavailable"}]

\* urls whose transformer is transform_ytdlp_result, directly or through
\* transform_twitch_result
YtdlpUrls == {"youtube.com/watch", "clips.twitch.tv/c", "soundcloud.com/t",
              "example.com/video.mp4"}

InitYtdlp ==
    /\ formats = <<>>
    /\ target_heights = FormatsModule.TARGET_HEIGHTS
    /\ height_tolerance = 10
    /\ max_progressive_height = 720
    /\ include_hls = FALSE
    /\ target_bitrate = 128
    /\ pc = "start"
    /\ out = NoOutput
    /\ module_state = FormatsModule
    /\ calls = <<>>
    /\ request \in [url : YtdlpUrls, cookie : {"", "sid=1"}]
    /\ tasks = <<>>

\* what convert_cookie_to_netscape or handle.write may raise (a JSON cookie
\* whose domain is not a string, a cookie utf-8 cannot encode, a full disk)
CookieErrors == {[type |-> "Exception", message |-> "boom"]}

\* cookie_file after the with block of lines 77-79: handle.name once
\* handle.write has returned, still None when the block was left by an
\* exception
ytdlp_cookie_file(written) == IF written THEN "cookie.txt" ELSE None

\* lines 56-81: platform, options, the temporary cookie file, which
\* NamedTemporaryFile(delete=False) creates before the cookie is converted
\* and written.  No url drawn has a query string, so
\* _canonicalize_youtube_watch_url returns it as is.
YtdlpEnter ==
    /\ pc = "start"
    /\ request' = [url |-> request.url, cookie |-> request.cookie,
                   platform |-> transforms_platform_or_unknown(detect_platform(request.url)),
                   cookie_file |-> IF request.cookie # "" THEN ytdlp_cookie_file(TRUE)
                                   ELSE None]
    /\ calls' = <<[fn |-> "detect_platform", outcome |-> "returned"]>>
                 \o (IF request.cookie # ""
                     THEN <<[fn |-> "NamedTemporaryFile", outcome |-> "returned"],
                            [fn |-> "convert_cookie_to_netscape", outcome |-> "returned"],
                            [fn |-> "handle.write", outcome |-> "returned"]>>
                     ELSE <<>>)
    /\ pc' = "extract_info"
    /\ UNCHANGED <<formats, target_heights, height_tolerance, max_progressive_height,
                   include_hls, target_bitrate, out, module_state, tasks>>

\* lines 76-79, 90-93: convert_cookie_to_netscape or handle.write raises
\* inside the with block; the file exists, cookie_file was not assigned, and
\* the except clause builds the return value
YtdlpCookieRaises ==
    /\ pc = "start"
    /\ request.cookie # ""
    /\ request' = [url |-> request.url, cookie |-> request.cookie,
                   platform |-> transforms_platform_or_unknown(detect_platform(request.url)),
                   cookie_file |-> ytdlp_cookie_file(FALSE)]
    /\ \E exc \in CookieErrors, failed \in {"convert_cookie_to_netscape", "handle.write"} :
         LET handled == ytdlp_except(exc, request.url,
                 <<[fn |-> "detect_platform", outcome |-> "returned"],
                   [fn |-> "NamedTemporaryFile", outcome |-> "returned"]>>
                 \o (IF failed = "handle.write"
                     THEN <<[fn |-> "convert_cookie_to_netscape", outcome |-> "returned"]>>
                     ELSE <<>>)
                 \o <<[fn |-> failed, outcome |-> "raised"]>>)
         IN  /\ out' = handled.out
             /\ calls' = handled.calls
    /\ pc' = "finally"
    /\ UNCHANGED <<formats, target_heights, height_tolerance, max_progressive_height,
                   include_hls, target_bitrate, module_state, tasks>>

\* lines 82-83: ydl.extract_info returns a dict
YtdlpExtractInfoReturns ==
    /\ pc = "extract_info"
    /\ \E info \in YtdlpInfos :
         request' = [url |-> request.url, cookie |-> request.cookie,
                     platform |-> request.platform, cookie_file |-> request.cookie_file,
                     info |-> info]
    /\ calls' = Append(calls, [fn |-> "extract_info", outcome |-> "returned"])
    /\ pc' = "transformer"
    /\ UNCHANGED <<formats, target_heights, height_tolerance, max_progressive_height,
                   include_hls, target_bitrate, out, module_state, tasks>>

\* lines 82-83: ydl.extract_info returns None; `info or {}` is then {}
YtdlpExtractInfoReturnsNone ==
    /\ pc = "extract_info"
    /\ request' = [url |-> request.url, cookie |-> request.cookie,
                   platform |-> request.platform, cookie_file |-> request.cookie_file,
                   info |-> <<>>]
    /\ calls' = Append(calls, [fn |-> "extract_info", outcome |-> "returned"])
    /\ pc' = "transformer"
    /\ UNCHANGED <<formats, target_heights, height_tolerance, max_progressive_height,
                   include_hls, target_bitrate, out, module_state, tasks>>

\* lines 82-83, 87-93: ydl.extract_info raises; the except clause builds the
\* return value
YtdlpExtractInfoRaises ==
    /\ pc = "extract_info"
    /\ \E exc \in YtdlpErrors :
         LET handled == ytdlp_except(exc, request.url,
                            Append(calls, [fn |-> "extract_info", outcome |-> "raised"]))
         IN  /\ out' = handled.out
             /\ calls' = handled.calls
    /\ pc' = "finally"
    /\ UNCHANGED <<formats, target_heights, height_tolerance, max_progressive_height,
                   include_hls, target_bitrate, module_state, request, tasks>>

\* lines 85-86: the transformer returns the response
YtdlpTransformerReturns ==
    /\ pc = "transformer"
    /\ out' = transform_ytdlp_result(request.info, request.url)
    /\ calls' = Append(calls, [fn |-> ytdlp_get_transformer(request.platform),
                               outcome |-> "returned"])
    /\ pc' = "finally"
    /\ UNCHANGED <<formats, target_heights, height_tolerance, max_progressive_height,
                   include_hls, target_bitrate, module_state, request, tasks>>

\* lines 85-93: the transformer raises; the except clause builds the return
\* value
YtdlpTransformerRaises ==
    /\ pc = "transformer"
    /\ \E exc \in {e \in YtdlpErrors : e.type = "Exception"} :
         LET handled == ytdlp_except(exc, request.url,
                            Append(calls, [fn |-> ytdlp_get_transformer(request.platform),
                                           outcome |-> "raised"]))
         IN  /\ out' = handled.out
             /\ calls' = handled.calls
    /\ pc' = "finally"
    /\ UNCHANGED <<formats, target_heights, height_tolerance, max_progressive_height,
                   include_hls, target_bitrate, module_state, request, tasks>>

\* lines 94-99: the finally clause, then the call returns `out`.  With
\* cookie_file set, os.unlink removes the file, or raises OSError, which is
\* passed over
YtdlpFinally ==
    /\ pc = "finally"
    /\ \/ /\ request.cookie_file = None
          /\ UNCHANGED calls
       \/ /\ request.cookie_file # None
          /\ \E outcome \in {"returned", "raised"} :
                calls' = Append(calls, [fn |-> "os.unlink", outcome |-> outcome])
    /\ pc' = "extract_with_ytdlp"
    /\ UNCHANGED <<formats, target_heights, height_tolerance, max_progressive_height,
                   include_hls, target_bitrate, out, module_state, request, tasks>>

NextYtdlp ==
    \/ YtdlpEnter
    \/ YtdlpCookieRaises
    \/ YtdlpExtractInfoReturns
    \/ YtdlpExtractInfoReturnsNone
    \/ YtdlpExtractInfoRaises
    \/ YtdlpTransformerReturns
    \/ YtdlpTransformerRaises
    \/ YtdlpFinally

SpecYtdlp == InitYtdlp /\ [][NextYtdlp]_vars

\* the positions in the log of the calls of the functions `fns`
LoggedCalls(fns) == {i \in 1..Len(calls) : calls[i].fn \in fns}

\* extract_info raised in this call
ExtractInfoRaised ==
    \E i \in 1..Len(calls) : calls[i].fn = "extract_info" /\ calls[i].outcome = "raised"

\* {success: false, error: {code, message}}
StructuredError(response) ==
    /\ DOMAIN response = {"success", "error"}
    /\ response.success = FALSE
    /\ DOMAIN response.error = {"code", "message"}

\* C15: in extract_with_ytdlp, when extract_info raised, the call returns a
\* structured error {success: false, error: {code, message}} and no
\* transformer was invoked; every transformer invocation comes after an
\* extract_info that returned.
C15_ErrorBeforeTransformer ==
    /\ (pc = "extract_with_ytdlp" /\ ExtractInfoRaised)
          => StructuredError(out) /\ LoggedCalls(Transformers) = {}
    /\ \A i \in LoggedCalls(Transformers) :
          \E j \in 1..(i - 1) :
              calls[j].fn = "extract_info" /\ calls[j].outcome = "returned"

\* extract_info raised "Private video", and the call returned
C15_Witness ==
    /\ pc = "extract_with_ytdlp"
    /\ ExtractInfoRaised
    /\ out = create_error_response("PRIVATE_CONTENT", "Private video")
    /\ LoggedCalls(Transformers) = {}

-----------------------------------------------------------------------------
(* api/security.py.                                                        *)

MAX_URL_LENGTH == 2048
MAX_COOKIE_LENGTH == 8192

\* ATTACK_PATTERNS, matched on lower-cased text (re.IGNORECASE): the literal
\* `pre`, then when `gap` any run of whitespace (\s*), then one of `posts`.
\* The patterns \x00 and [`] are left out: no text drawn holds a NUL
\* character or a backquote.
ATTACK_PATTERNS ==
    <<[pre |-> <<".", ".">>, gap |-> FALSE,
       posts |-> {<<"/">>, <<"\\">>}],
      [pre |-> <<"%", "2", "e", "%", "2", "e">>, gap |-> FALSE,
       posts |-> {<<>>}],
      [pre |-> <<"%", "0", "0">>, gap |-> FALSE,
       posts |-> {<<>>}],
      [pre |-> <<"$", "{">>, gap |-> FALSE,
       posts |-> {<<>>}],
      [pre |-> <<"$", "(">>, gap |-> FALSE,
       posts |-> {<<>>}],
      [pre |-> <<";">>, gap |-> TRUE,
       posts |-> {<<"l", "s">>, <<"c", "a", "t">>, <<"r", "m">>, <<"w", "g", "e", "t">>, <<"c", "u", "r", "l">>, <<"b", "a", "s", "h">>, <<"s", "h">>, <<"n", "c">>, <<"p", "y", "t", "h", "o", "n">>, <<"p", "e", "r", "l">>, <<"r", "u", "b", "y">>, <<"p", "h", "p">>}],
      [pre |-> <<"|">>, gap |-> TRUE,
       posts |-> {<<"l", "s">>, <<"c", "a", "t">>, <<"r", "m">>, <<"w", "g", "e", "t">>, <<"c", "u", "r", "l">>, <<"b", "a", "s", "h">>, <<"s", "h">>, <<"n", "c">>, <<"p", "y", "t", "h", "o", "n">>, <<"p", "e", "r", "l">>, <<"r", "u", "b", "y">>, <<"p", "h", "p">>}],
      [pre |-> <<">">>, gap |-> TRUE,
       posts |-> {<<"/">>}],
      [pre |-> <<>>, gap |-> FALSE,
       posts |-> {<<"\r">>, <<"\n">>}],
      [pre |-> <<"%", "0">>, gap |-> FALSE,
       posts |-> {<<"a">>, <<"d">>}],
      [pre |-> <<"f", "i", "l", "e", ":", "/", "/">>, gap |-> FALSE,
       posts |-> {<<>>}],
      [pre |-> <<"g", "o", "p", "h", "e", "r", ":", "/", "/">>, gap |-> FALSE,
       posts |-> {<<>>}],
      [pre |-> <<"d", "i", "c", "t", ":", "/", "/">>, gap |-> FALSE,
       posts |-> {<<>>}],
      [pre |-> <<"f", "t", "p", ":", "/", "/">>, gap |-> FALSE,
       posts |-> {<<>>}]>>

\* BLOCKED_HOST_PATTERNS: ^localhost$, the patterns anchored at the start
\* (172\.(1[6-9]|2[0-9]|3[01])\. written out), the patterns anchored at the
\* end
BLOCKED_HOST_EXACT == {<<"l", "o", "c", "a", "l", "h", "o", "s", "t">>}
BLOCKED_HOST_PREFIXES ==
    {<<"1", "2", "7", ".">>,
     <<"1", "0", ".">>,
     <<"1", "7", "2", ".", "1", "6", ".">>,
     <<"1", "7", "2", ".", "1", "7", ".">>,
     <<"1", "7", "2", ".", "1", "8", ".">>,
     <<"1", "7", "2", ".", "1", "9", ".">>,
     <<"1", "7", "2", ".", "2", "0", ".">>,
     <<"1", "7", "2", ".", "2", "1", ".">>,
     <<"1", "7", "2", ".", "2", "2", ".">>,
     <<"1", "7", "2", ".", "2", "3", ".">>,
     <<"1", "7", "2", ".", "2", "4", ".">>,
     <<"1", "7", "2", ".", "2", "5", ".">>,
     <<"1", "7", "2", ".", "2", "6", ".">>,
     <<"1", "7", "2", ".", "2", "7", ".">>,
     <<"1", "7", "2", ".", "2", "8", ".">>,
     <<"1", "7", "2", ".", "2", "9", ".">>,
     <<"1", "7", "2", ".", "3", "0", ".">>,
     <<"1", "7", "2", ".", "3", "1", ".">>,
     <<"1", "9", "2", ".", "1", "6", "8", ".">>,
     <<"1", "6", "9", ".", "2", "5", "4", ".">>,
     <<"0", ".">>,
     <<"[", ":", ":", "1", "]">>,
     <<"[", "f", "c">>,
     <<"[", "f", "d">>,
     <<"[", "f", "e", "8", "0", ":">>,
     <<"m", "e", "t", "a", "d", "a", "t", "a", ".">>}
BLOCKED_HOST_SUFFIXES == {<<".", "i", "n", "t", "e", "r", "n", "a", "l">>, <<".", "l", "o", "c", "a", "l">>}

\* \s
Whitespace == {" ", "\t", "\n", "\r", "\f"}

StartsWith(text, prefix) ==
    Len(prefix) <= Len(text) /\ SubSeq(text, 1, Len(prefix)) = prefix

EndsWith(text, suffix) ==
    Len(suffix) <= Len(text)
    /\ SubSeq(text, Len(text) - Len(suffix) + 1, Len(text)) = suffix

\* re.search of one attack pattern in lower-cased text
security_attack_pattern_found(pattern, text) ==
    \E i \in 1..(Len(text) - Len(pattern.pre) + 1) :
        /\ SubSeq(text, i, i + Len(pattern.pre) - 1) = pattern.pre
        /\ \E post \in pattern.posts :
             \E j \in (i + Len(pattern.pre))..(Len(text) - Len(post) + 1) :
                 /\ pattern.gap \/ j = i + Len(pattern.pre)
                 /\ \A k \in (i + Len(pattern.pre))..(j - 1) : text[k] \in Whitespace
                 /\ SubSeq(text, j, j + Len(post) - 1) = post

\* has_attack_pattern(input_str), on the characters of the string
has_attack_pattern(input_str) ==
    /\ input_str # <<>>
    /\ \E n \in 1..Len(ATTACK_PATTERNS) :
          security_attack_pattern_found(ATTACK_PATTERNS[n], Lower(input_str))

\* is_blocked_host(hostname), on the characters of the host name
is_blocked_host(hostname) ==
    \/ hostname = <<>>
    \/ Lower(hostname) \in BLOCKED_HOST_EXACT
    \/ \E p \in BLOCKED_HOST_PREFIXES : StartsWith(Lower(hostname), p)
    \/ \E s \in BLOCKED_HOST_SUFFIXES : EndsWith(Lower(hostname), s)

\* the first position of one of the characters `cs` in text, Len(text) + 1
\* when there is none
FirstOf(text, cs) ==
    IF \E i \in 1..Len(text) : text[i] \in cs
    THEN CHOOSE i \in 1..Len(text) :
            text[i] \in cs /\ \A k \in 1..(i - 1) : text[k] \notin cs
    ELSE Len(text) + 1

\* a character of a scheme name
SchemeChar(c) == (WordChar(c) /\ c # "_") \/ c \in {"+", "-", "."}

\* urlparse(url).scheme: the lower-cased text before the first ":" when it
\* is a scheme name, else ""
urlparse_scheme(url) ==
    LET i == FirstOf(url, {":"}) IN
    IF /\ i <= Len(url) /\ i > 1
       /\ \A k \in 1..(i - 1) : SchemeChar(LowerChar(url[k]))
       /\ LowerChar(url[1]) \notin {"0", "1", "2", "3", "4", "5", "6", "7", "8", "9",
                                    "+", "-", "."}
    THEN Lower(SubSeq(url, 1, i - 1))
    ELSE <<>>

\* urlparse(url).netloc: after the scheme, the text between "//" and the
\* next "/", "?" or "#"
urlparse_netloc(url) ==
    LET scheme == urlparse_scheme(url)
        rest   == IF scheme = <<>> THEN url ELSE SubSeq(url, Len(scheme) + 2, Len(url))
    IN  IF StartsWith(rest, <<"/", "/">>)
        THEN LET after == SubSeq(rest, 3, Len(rest)) IN
             SubSeq(after, 1, FirstOf(after, {"/", "?", "#"}) - 1)
        ELSE <<>>

RECURSIVE AfterLast(_, _)
\* text.rpartition(c)[2]
AfterLast(text, c) ==
    IF \E i \in 1..Len(text) : text[i] = c
    THEN AfterLast(SubSeq(text, FirstOf(text, {c}) + 1, Len(text)), c)
    ELSE text

\* urlparse(url).hostname or "": the netloc without user info and port,
\* lower-cased (no url drawn has a bracketed IPv6 host)
urlparse_hostname(url) ==
    LET hostinfo == AfterLast(urlparse_netloc(url), "@") IN
    Lower(SubSeq(hostinfo, 1, FirstOf(hostinfo, {":"}) - 1))

\* validate_url(url): (valid, error).  The test of line 82 repeats
\* is_blocked_host, which is false when that line is reached.
validate_url(url) ==
    LET text == Chars(url) IN
    IF url = "" THEN [valid |-> FALSE, error |-> "URL is required"]
    ELSE IF Len(text) > MAX_URL_LENGTH THEN [valid |-> FALSE, error |-> "URL too long"]
    ELSE IF has_attack_pattern(text)
         THEN [valid |-> FALSE, error |-> "Malicious pattern detected"]
    ELSE IF urlparse_scheme(text) \notin {Chars("http"), Chars("https")}
         THEN [valid |-> FALSE, error |-> "Only HTTP/HTTPS URLs allowed"]
    ELSE IF is_blocked_host(urlparse_hostname(text))
         THEN [valid |-> FALSE, error |-> "Internal hosts not allowed"]
    ELSE [valid |-> TRUE, error |-> ""]

\* the strings the requests and responses drawn are made of
Tokens ==
    {"", "boom", "<b>boom</b>", "login required", "sid=1", "a${b",
     "youtube", "reddit", "clip",
     "https://youtube.com/watch", " https://youtube.com/watch ",
     "https://reddit.com/r/x", "https://pixiv.net/a", "https://example.com/video.mp4",
     "ftp://youtube.com/x", "youtube.com/watch", "http://localhost/youtube.com",
     "https://youtube.com/../x", "http://192.168.0.1/youtube.com",
     "https://youtube.com/; ls", "HTTPS://YouTube.com/watch",
     "https://user@youtube.com:443/watch",
     "UNSUPPORTED_PLATFORM", "INVALID_URL", "FETCH_FAILED", "TIMEOUT", "RATE_LIMITED",
     "AGE_RESTRICTED", "PRIVATE_CONTENT", "DELETED_CONTENT", "LOGIN_REQUIRED",
     "STORY_EXPIRED", "GEO_RESTRICTED", "NO_MEDIA_FOUND", "EXTRACTION_FAILED",
     "UNSUPPORTED_FORMAT", "INTERNAL_ERROR", "SOMETHING_ELSE",
     "No extractor for platform", "Platform not supported", "JSON body required",
     "URL is required", "Malicious pattern detected", "Only HTTP/HTTPS URLs allowed",
     "Internal hosts not allowed", "No media found from gallery-dl"}

\* the string with the given characters
FromChars(chars) == CHOOSE t \in Tokens : Chars(t) = chars

RECURSIVE StripLeft(_)
StripLeft(text) ==
    IF text # <<>> /\ text[1] \in Whitespace THEN StripLeft(Tail(text)) ELSE text

RECURSIVE StripRight(_)
StripRight(text) ==
    IF text # <<>> /\ text[Len(text)] \in Whitespace
    THEN StripRight(SubSeq(text, 1, Len(text) - 1))
    ELSE text

\* str.strip()
Strip(s) ==
    LET text == Chars(s)
        stripped == StripRight(StripLeft(text))
    IN  IF stripped = text THEN s ELSE FromChars(stripped)

RECURSIVE security_strip_tags(_)
\* re.sub(r"<[^>]+>", "", value): a "<", one or more characters other than
\* ">", and the next ">" are removed
security_strip_tags(text) ==
    IF text = <<>> THEN <<>>
    ELSE LET close == FirstOf(Tail(text), {">"}) + 1 IN
         IF text[1] = "<" /\ close <= Len(text) /\ close > 2
         THEN security_strip_tags(SubSeq(text, close + 1, Len(text)))
         ELSE <<text[1]>> \o security_strip_tags(Tail(text))

\* the control characters a string of the model can hold that
\* [\x00-\x09\x0b\x0c\x0e-\x1f\x7f] removes, and those [\x00-\x1f\x7f] removes
OutputControlChars == {"\t", "\f"}
CookieControlChars == {"\t", "\n", "\r", "\f"}

\* sanitize_output(value) for a str
security_sanitize_output_str(value) ==
    LET text  == Chars(value)
        clean == SelectSeq(security_strip_tags(text),
                           LAMBDA c : c \notin OutputControlChars)
    IN  IF clean = text THEN value ELSE FromChars(clean)

\* the keys of the envelopes that hold a str
StrKeys == {"platform", "contentType", "title", "code", "message"}

\* sanitize_output(value) for a dict of the envelope: str values are
\* cleaned, other values (bool, the empty items list) are returned as is
security_sanitize_output_dict(value) ==
    [k \in DOMAIN value |->
        IF k \in StrKeys THEN security_sanitize_output_str(value[k]) ELSE value[k]]

\* sanitize_output(value) for an extractor result
sanitize_output(value) ==
    [k \in DOMAIN value |->
        IF k = "error" THEN security_sanitize_output_dict(value[k])
        ELSE IF k \in StrKeys THEN security_sanitize_output_str(value[k])
        ELSE value[k]]

\* sanitize_cookie(cookie) for a non-empty str
sanitize_cookie(cookie) ==
    LET text == Chars(cookie)
        sanitized == SelectSeq(text, LAMBDA c : c \notin CookieControlChars)
    IN  IF Len(text) > MAX_COOKIE_LENGTH THEN None
        ELSE IF has_attack_pattern(text) THEN None
        ELSE IF sanitized = <<>> THEN None
        ELSE IF sanitized = text THEN cookie ELSE FromChars(sanitized)

-----------------------------------------------------------------------------
(* api/routes/extract.py: extract_route, step by step.  `request` is the   *)
(* request and, once read, the locals url, cookie, platform; `calls` logs  *)
(* validate_url, detect_platform and the extractors; `out` is the response.*)

NSFW_PLATFORMS == {"eporner", "rule34video"}

\* _cors_headers()
route_cors_headers ==
    [allow_origin |-> "*", allow_headers |-> "Content-Type, Authorization",
     allow_methods |-> "POST, OPTIONS"]

\* mutant of route_status_for_error: every error code is answered with 400
route_status_for_error_flat(code) == 400

\* _status_for_error(code)
route_status_for_error(code) ==
    IF code = "LOGIN_REQUIRED" THEN 401
    ELSE IF code \in {"PRIVATE_CONTENT", "AGE_RESTRICTED"} THEN 403
    ELSE IF code = "DELETED_CONTENT" THEN 404
    ELSE IF code = "RATE_LIMITED" THEN 429
    ELSE IF code = "INTERNAL_ERROR" THEN 500
    ELSE 400

\* (jsonify(create_error_response(code, message)), status, _cors_headers())
route_error(code, message, status) ==
    [status |-> status, body |-> create_error_response(code, message),
     headers |-> route_cors_headers]

\* an exception that leaves extract_route: the framework answers with its
\* own 500 page
route_unhandled == [status |-> 500, body |-> [html |-> "Internal Server Error"],
                    headers |-> <<>>]

\* lines 72-79: sanitize_output, isNsfw, the status
route_respond(result, platform) ==
    LET clean  == sanitize_output(result)
        marked == IF Get(clean, "success", FALSE)
                  THEN ("isNsfw" :> (platform \in NSFW_PLATFORMS)) @@ clean
                  ELSE clean
        status == IF Get(marked, "success", FALSE) THEN 200
                  ELSE route_status_for_error(
                           Get(Get(marked, "error", <<>>), "code", "EXTRACTION_FAILED"))
    IN  [status |-> status, body |-> marked, headers |-> route_cors_headers]

\* the values of a field of the JSON body: absent, null, a number, a str
JsonAbsent == [t |-> "absent"]
JsonNull   == [t |-> "null"]
JsonNumber == [t |-> "number"]
JsonStr(s) == [t |-> "str", v |-> s]

RouteUrls ==
    {"", "https://youtube.com/watch", " https://youtube.com/watch ",
     "https://reddit.com/r/x", "https://pixiv.net/a", "https://example.com/video.mp4",
     "ftp://youtube.com/x", "youtube.com/watch", "http://localhost/youtube.com",
     "https://youtube.com/../x", "http://192.168.0.1/youtube.com",
     "https://youtube.com/; ls", "HTTPS://YouTube.com/watch",
     "https://user@youtube.com:443/watch"}

\* a JSON object with url and cookie, a non-empty JSON array, a body that
\* get_json(silent=True) cannot parse
RouteBodies ==
    [kind : {"dict"},
     url : {JsonAbsent, JsonNull, JsonNumber} \cup {JsonStr(u) : u \in RouteUrls},
     cookie : {JsonAbsent, JsonNumber, JsonStr("sid=1"), JsonStr("a${b")}]
    \cup {[kind |-> "list"], [kind |-> "unparsable"]}

RouteRequests ==
    {[method |-> "OPTIONS", is_json |-> FALSE, body |-> [kind |-> "unparsable"]],
     [method |-> "POST", is_json |-> FALSE, body |-> [kind |-> "unparsable"]]}
    \cup [method : {"POST"}, is_json : {TRUE}, body : RouteBodies]

\* what an extractor may return: success envelopes, an error envelope for
\* every code, envelopes without error or without code
ErrorCodes ==
    {"UNSUPPORTED_PLATFORM", "INVALID_URL", "FETCH_FAILED", "TIMEOUT", "RATE_LIMITED",
     "AGE_RESTRICTED", "PRIVATE_CONTENT", "DELETED_CONTENT", "LOGIN_REQUIRED",
     "STORY_EXPIRED", "GEO_RESTRICTED", "NO_MEDIA_FOUND", "EXTRACTION_FAILED",
     "UNSUPPORTED_FORMAT", "INTERNAL_ERROR"}

ExtractorResults ==
    {[success |-> TRUE, platform |-> "youtube", items |-> <<>>],
     [success |-> TRUE, platform |-> "reddit", title |-> "<b>boom</b>", items |-> <<>>],
     [success |-> FALSE],
     [success |-> FALSE, error |-> [message |-> "boom"]],
     create_error_response("SOMETHING_ELSE", "<b>boom</b>"),
     create_error_response("LOGIN_REQUIRED", "login required")}
    \cup {create_error_response(code, "boom") : code \in ErrorCodes}

InitRoute ==
    /\ formats = <<>>
    /\ target_heights = FormatsModule.TARGET_HEIGHTS
    /\ height_tolerance = 10
    /\ max_progressive_height = 720
    /\ include_hls = FALSE
    /\ target_bitrate = 128
    /\ pc = "start"
    /\ out = NoOutput
    /\ module_state = FormatsModule
    /\ calls = <<>>
    /\ request \in RouteRequests
    /\ tasks = <<>>

\* lines 40-48: OPTIONS, is_json, the body, url and cookie
RouteEnter ==
    /\ pc = "start"
    /\ IF request.method = "OPTIONS"
       THEN /\ out' = [status |-> 204, body |-> [text |-> ""], headers |-> route_cors_headers]
            /\ pc' = "responded"
            /\ UNCHANGED request
       ELSE IF ~request.is_json
       THEN /\ out' = route_error("INVALID_URL", "JSON body required", 400)
            /\ pc' = "responded"
            /\ UNCHANGED request
       ELSE IF request.body.kind = "list"
       THEN \* body.get: AttributeError, 'list' object has no attribute 'get'
            /\ out' = route_unhandled
            /\ pc' = "responded"
            /\ UNCHANGED request
       ELSE IF request.body.kind = "dict" /\ request.body.url.t = "number"
       THEN \* (body.get("url") or "").strip(): AttributeError
            /\ out' = route_unhandled
            /\ pc' = "responded"
            /\ UNCHANGED request
       ELSE /\ request' =
                [method |-> request.method, is_json |-> request.is_json,
                 body |-> request.body,
                 url |-> IF request.body.kind = "dict" /\ request.body.url.t = "str"
                         THEN Strip(request.body.url.v) ELSE "",
                 cookie |-> IF request.body.kind = "dict" THEN request.body.cookie
                            ELSE JsonAbsent]
            /\ pc' = "validate_url"
            /\ UNCHANGED out
    /\ UNCHANGED <<formats, target_heights, height_tolerance, max_progressive_height,
                   include_hls, target_bitrate, module_state, calls, tasks>>

\* lines 50-52: validate_url
RouteValidateUrl ==
    /\ pc = "validate_url"
    /\ LET checked == validate_url(request.url) IN
       /\ calls' = Append(calls, [fn |-> "validate_url",
                                  outcome |-> IF checked.valid THEN "accepted"
                                              ELSE "rejected"])
       /\ IF checked.valid
          THEN pc' = "sanitize_cookie" /\ UNCHANGED out
          ELSE /\ out' = route_error("INVALID_URL", checked.error, 400)
               /\ pc' = "responded"
    /\ UNCHANGED <<formats, target_heights, height_tolerance, max_progressive_height,
                   include_hls, target_bitrate, module_state, request, tasks>>

\* line 54: cookie = sanitize_cookie(cookie) if cookie else None
RouteSanitizeCookie ==
    /\ pc = "sanitize_cookie"
    /\ IF request.cookie.t = "number"
       THEN \* len(cookie): TypeError, outside the try block
            /\ out' = route_unhandled
            /\ pc' = "responded"
            /\ UNCHANGED request
       ELSE /\ request' = [request EXCEPT !.cookie =
                             IF request.cookie.t = "str" /\ request.cookie.v # ""
                             THEN JsonStr(sanitize_cookie(request.cookie.v))
                             ELSE JsonStr(None)]
            /\ pc' = "detect_platform"
            /\ UNCHANGED out
    /\ UNCHANGED <<formats, target_heights, height_tolerance, max_progressive_height,
                   include_hls, target_bitrate, module_state, calls, tasks>>

\* lines 56-62: detect_platform
RouteDetectPlatform ==
    /\ pc = "detect_platform"
    /\ LET platform == detect_platform(request.url) IN
       /\ calls' = Append(calls, [fn |-> "detect_platform", outcome |-> platform])
       /\ IF platform = None
          THEN /\ out' = route_error("UNSUPPORTED_PLATFORM", "Platform not supported", 400)
               /\ pc' = "responded"
               /\ UNCHANGED request
          ELSE /\ request' = ("platform" :> platform) @@ request
               /\ pc' = "extract"
               /\ UNCHANGED out
    /\ UNCHANGED <<formats, target_heights, height_tolerance, max_progressive_height,
                   include_hls, target_bitrate, module_state, tasks>>

\* the extractor the route calls for the platform
route_extractor(platform) ==
    IF platform \in YTDLP_PLATFORMS THEN "extract_with_ytdlp"
    ELSE IF platform \in GALLERY_DL_PLATFORMS THEN "extract_with_gallery_dl"
    ELSE None

Extractors == {"extract_with_ytdlp", "extract_with_gallery_dl"}

\* lines 64-79: the extractor returns a result
RouteExtractorReturns ==
    /\ pc = "extract"
    /\ route_extractor(request.platform) # None
    /\ \E result \in ExtractorResults :
         /\ calls' = Append(calls, [fn |-> route_extractor(request.platform),
                                    outcome |-> "returned", result |-> result])
         /\ out' = route_respond(result, request.platform)
    /\ pc' = "responded"
    /\ UNCHANGED <<formats, target_heights, height_tolerance, max_progressive_height,
                   include_hls, target_bitrate, module_state, request, tasks>>

\* lines 64-81: the extractor raises
RouteExtractorRaises ==
    /\ pc = "extract"
    /\ route_extractor(request.platform) # None
    /\ \E message \in {"", "boom"} :
         /\ calls' = Append(calls, [fn |-> route_extractor(request.platform),
                                    outcome |-> "raised"])
         /\ out' = route_error("INTERNAL_ERROR", message, 500)
    /\ pc' = "responded"
    /\ UNCHANGED <<formats, target_heights, height_tolerance, max_progressive_height,
                   include_hls, target_bitrate, module_state, request, tasks>>

\* lines 69-79: a platform with neither extractor
RouteNoExtractor ==
    /\ pc = "extract"
    /\ route_extractor(request.platform) = None
    /\ out' = route_respond(create_error_response("UNSUPPORTED_PLATFORM",
                                                  "No extractor for platform"),
                            request.platform)
    /\ pc' = "responded"
    /\ UNCHANGED <<formats, target_heights, height_tolerance, max_progressive_height,
                   include_hls, target_bitrate, module_state, calls, request, tasks>>

NextRoute ==
    \/ RouteEnter
    \/ RouteValidateUrl
    \/ RouteSanitizeCookie
    \/ RouteDetectPlatform
    \/ RouteExtractorReturns
    \/ RouteExtractorRaises
    \/ RouteNoExtractor

SpecRoute == InitRoute /\ [][NextRoute]_vars

\* the url field of the request body is a str that validate_url accepts
\* once stripped
RequestUrlValid ==
    /\ request.body.kind = "dict"
    /\ request.body.url.t = "str"
    /\ validate_url(Strip(request.body.url.v)).valid

\* the platform detect_platform finds for the url of the request, None for
\* a url that is not a str
RequestPlatform ==
    IF request.body.kind = "dict" /\ request.body.url.t = "str"
    THEN detect_platform(Strip(request.body.url.v))
    ELSE None

\* a POST request with a non-JSON body, with an empty or invalid url (no
\* url, null, not a str, rejected by validate_url), or with a valid url of
\* an unsupported platform
RejectedRequest ==
    /\ request.method = "POST"
    /\ \/ ~request.is_json
       \/ request.body.kind = "unparsable"
       \/ request.body.kind = "dict" /\ ~RequestUrlValid
       \/ RequestUrlValid /\ RequestPlatform \notin (YTDLP_PLATFORMS \cup GALLERY_DL_PLATFORMS)

\* C17: in extract_route an extractor (extract_with_ytdlp or
\* extract_with_gallery_dl) is invoked only after validate_url accepted the
\* url and detect_platform returned a platform; a request with a non-JSON
\* body, an empty or invalid url, or an unsupported platform is answered
\* with status 400 and an error envelope, and no extractor is called.
C17_ExtractorOnlyAfterChecks ==
    /\ \A i \in LoggedCalls(Extractors) :
          /\ \E j \in 1..(i - 1) :
                calls[j].fn = "validate_url" /\ calls[j].outcome = "accepted"
          /\ \E j \in 1..(i - 1) :
                calls[j].fn = "detect_platform" /\ calls[j].outcome # None
    /\ (pc = "responded" /\ RejectedRequest)
          => /\ out.status = 400
             /\ StructuredError(out.body)
             /\ LoggedCalls(Extractors) = {}

\* the status the mapping gives a failed extractor result: by its error
\* code, 400 for a code not listed and for a result without code
ExpectedStatus(result) ==
    LET code == Get(Get(result, "error", <<>>), "code", "") IN
    CASE code = "LOGIN_REQUIRED" -> 401
      [] code = "PRIVATE_CONTENT" -> 403
      [] code = "AGE_RESTRICTED" -> 403
      [] code = "DELETED_CONTENT" -> 404
      [] code = "RATE_LIMITED" -> 429
      [] code = "INTERNAL_ERROR" -> 500
      [] OTHER -> 400

\* the extractor returned, and the route responded
ExtractorReturned ==
    /\ pc = "responded"
    /\ calls # <<>>
    /\ calls[Len(calls)].fn \in Extractors
    /\ calls[Len(calls)].outcome = "returned"

\* C18: the status of extract_route's response is 200 exactly when the
\* extractor result has success = true; for a failed result it is 401 for
\* LOGIN_REQUIRED, 403 for PRIVATE_CONTENT and AGE_RESTRICTED, 404 for
\* DELETED_CONTENT, 429 for RATE_LIMITED, 500 for INTERNAL_ERROR and 400 for
\* any other code and for a missing code.
C18_StatusMapping ==
    ExtractorReturned =>
        LET result == calls[Len(calls)].result IN
        /\ (out.status = 200) <=> result.success
        /\ ~result.success => out.status = ExpectedStatus(result)

\* the extractor returned LOGIN_REQUIRED and the route answered 401
C18_Witness ==
    /\ ExtractorReturned
    /\ calls[Len(calls)].result = create_error_response("LOGIN_REQUIRED", "login required")
    /\ out.status = 401

-----------------------------------------------------------------------------
(* The generic pipeline on buckets around one target, and on HLS formats.  *)

\* video formats of heights at and on both sides of 720, with and without
\* audio
TieFormats ==
    [url : {VideoUrl}, vcodec : {"avc1"}, acodec : {"mp4a", "none"},
     height : {700, 720, 730, 740}, width : {1280}]

InitTie ==
    /\ formats \in SeqsUpTo(TieFormats, MaxFormats)
    /\ target_heights \in {<<720>>, DEFAULT_TARGET_HEIGHTS}
    /\ height_tolerance = 10
    /\ max_progressive_height = 720
    /\ include_hls = TRUE
    /\ target_bitrate = 128
    /\ pc = "start"
    /\ out = NoOutput
    /\ ServicesIdle

NextTie == CallExtractProcessVideoFormats

SpecTie == InitTie /\ [][NextTie]_vars

\* the heights of the input's video formats within tolerance of target_h
BucketsNear(target_h) ==
    {h \in {Get(extract_video_formats(formats)[i], "height", 0) :
                i \in 1..Len(extract_video_formats(formats))} :
        extract_within_tolerance(h, target_h, height_tolerance)}

\* C19: for a target height process_video_formats (api/extract.py) chooses,
\* among the buckets within tolerance, the one at the smallest distance from
\* the target, and of two buckets at the same distance (700 and 740 for
\* 720) the larger one, whatever the order of the input.  Stated for the
\* first Source returned, chosen while every bucket is still there.
C19_ClosestBucketTieToLarger ==
    (pc = "extract_process_video_formats" /\ out.picked # <<>>)
        => LET target_h == target_heights[out.picked[1].target]
               chosen   == out.picked[1].bucket
           IN  \A h \in BucketsNear(target_h) :
                   \/ Abs(chosen - target_h) < Abs(h - target_h)
                   \/ Abs(chosen - target_h) = Abs(h - target_h) /\ chosen >= h

\* formats is_hls_format classifies as HLS, by url and by protocol, with
\* video and audio, video only, audio only; a video format and an audio
\* format that are not HLS
HlsPipelineFormats ==
    [url : {HlsUrl}, vcodec : {"avc1"}, acodec : {"mp4a", "none"},
     height : {720}, width : {1280}]
    \cup {[url |-> HlsUrl, vcodec |-> "none", acodec |-> "mp4a", abr |-> 128],
          [url |-> "cdn.example/1.mp4", protocol |-> "m3u8_native", vcodec |-> "avc1",
           acodec |-> "none", height |-> 1080, width |-> 1920],
          [url |-> VideoUrl, vcodec |-> "avc1", acodec |-> "mp4a", height |-> 720,
           width |-> 1280],
          [url |-> VideoUrl, vcodec |-> "vp9", acodec |-> "none", height |-> 1080,
           width |-> 1920],
          [url |-> AudioUrl, vcodec |-> "none", acodec |-> "mp4a", abr |-> 128]}

InitHlsPipeline ==
    /\ formats \in SeqsUpTo(HlsPipelineFormats, MaxFormats)
    /\ target_heights \in {DEFAULT_TARGET_HEIGHTS, <<>>}
    /\ height_tolerance = 10
    /\ max_progressive_height = 720
    /\ include_hls \in BOOLEAN
    /\ target_bitrate = 128
    /\ pc = "start"
    /\ out = NoOutput
    /\ ServicesIdle

NextHlsPipeline == CallExtractProcessVideoFormats

SpecHlsPipeline == InitHlsPipeline /\ [][NextHlsPipeline]_vars

\* the urls of the input formats that is_hls_format classifies as HLS; in
\* the inputs drawn no other format has one of these urls
HlsInputUrls ==
    {formats[i].url : i \in {k \in 1..Len(formats) : extract_is_hls_format(formats[k])}}

\* C20: no video or audio Source returned by process_video_formats
\* (api/extract.py) is built from a format that is_hls_format classifies as
\* HLS, whatever its vcodec, acodec and height.
C20_NoSourceFromHls ==
    pc = "extract_process_video_formats"
        => /\ \A i \in 1..Len(out.video) : out.video[i].url \notin HlsInputUrls
           /\ \A i \in 1..Len(out.audio) : out.audio[i].url \notin HlsInputUrls

-----------------------------------------------------------------------------
(* The generic pipeline on buckets that hold several codecs.               *)

\* formats of one height in four codecs (hev1 is absent from the priority
\* table), with and without audio, and a format of another height
BucketFormats ==
    [url : {VideoUrl}, vcodec : {"avc1", "vp9", "av01", "hev1"}, acodec : {"mp4a", "none"},
     height : {720}, width : {1280}]
    \cup {[url |-> VideoUrl, vcodec |-> "vp9", acodec |-> "none", height |-> 1080,
           width |-> 1920]}

InitBucket ==
    /\ formats \in SeqsUpTo(BucketFormats, MaxFormats)
    /\ target_heights \in {DEFAULT_TARGET_HEIGHTS, <<720>>}
    /\ height_tolerance = 10
    /\ max_progressive_height = 720
    /\ include_hls = TRUE
    /\ target_bitrate = 128
    /\ pc = "start"
    /\ out = NoOutput
    /\ ServicesIdle

NextBucket == CallExtractProcessVideoFormats

SpecBucket == InitBucket /\ [][NextBucket]_vars

\* the pair the selection is ordered by, read off a format: audio score 0
\* with audio and 1 without, priority 0 for H.264, 1 for VP9, 2 for AV1 and
\* 99 for a codec absent from the table
AudioCodecPair(fmt) ==
    <<IF Get(fmt, "acodec", "none") # "none" THEN 0 ELSE 1,
      CASE Get(fmt, "vcodec", "none") = "avc1" -> 0
        [] Get(fmt, "vcodec", "none") = "vp9"  -> 1
        [] Get(fmt, "vcodec", "none") = "av01" -> 2
        [] OTHER -> 99>>

\* the same pair read off a returned Source
SourcePair(source) ==
    <<IF source.hasAudio THEN 0 ELSE 1,
      CASE Get(source, "codec", "") = "H.264" -> 0
        [] Get(source, "codec", "") = "VP9"   -> 1
        [] Get(source, "codec", "") = "AV1"   -> 2
        [] OTHER -> 99>>

\* the input's video formats whose height is h: the candidates of bucket h
BucketOf(h) ==
    SelectSeq(extract_video_formats(formats), LAMBDA f : Get(f, "height", 0) = h)

\* C21: every Source process_video_formats (api/extract.py) returns is
\* built from a candidate of its bucket whose pair (audio score, codec
\* priority) is lexicographically smallest in the bucket: a format with
\* audio beats every format without, then H.264 beats VP9 beats AV1 beats a
\* codec absent from the table.
C21_SmallestPairWins ==
    pc = "extract_process_video_formats" =>
        \A i \in 1..Len(out.video) :
            LET bucket == BucketOf(out.picked[i].bucket) IN
            /\ \E c \in 1..Len(bucket) :
                  /\ out.video[i] = CleanSource(extract_video_source(bucket[c]))
                  /\ AudioCodecPair(bucket[c]) = SourcePair(out.video[i])
            /\ \A c \in 1..Len(bucket) :
                  ~LexLess(AudioCodecPair(bucket[c]), SourcePair(out.video[i]))

\* a bucket with an H.264 format without audio ahead of a VP9 format with
\* audio: the VP9 Source is returned
C21_Witness ==
    /\ pc = "extract_process_video_formats"
    /\ Len(formats) = 2
    /\ formats[1].vcodec = "avc1" /\ formats[1].acodec = "none" /\ formats[1].height = 720
    /\ formats[2].vcodec = "vp9" /\ formats[2].acodec = "mp4a" /\ formats[2].height = 720
    /\ Len(out.video) = 1
    /\ out.video[1].codec = "VP9" /\ out.video[1].hasAudio

-----------------------------------------------------------------------------
(* The generic pipeline under several target lists and tolerances.         *)

\* video formats of heights above their targets
OrderFormats ==
    [url : {VideoUrl}, vcodec : {"avc1"}, acodec : {"mp4a", "none"},
     height : {480, 730, 740, 1100}, width : {1280}]

\* strictly descending target lists
OrderTargets == {<<720, 700>>, <<1080, 720>>, DEFAULT_TARGET_HEIGHTS}

InitOrder ==
    /\ formats \in SeqsUpTo(OrderFormats, MaxFormats)
    /\ target_heights \in OrderTargets
    /\ height_tolerance \in {10, 60}
    /\ max_progressive_height = 720
    /\ include_hls = TRUE
    /\ target_bitrate = 128
    /\ pc = "start"
    /\ out = NoOutput
    /\ ServicesIdle

NextOrder == CallExtractProcessVideoFormats

SpecOrder == InitOrder /\ [][NextOrder]_vars

\* C22: for a strictly descending target list and any tolerance, the heights
\* of the video Sources process_video_formats (api/extract.py) returns are
\* strictly descending in list order.
C22_SourceHeightsDescending ==
    pc = "extract_process_video_formats" =>
        \A i \in 1..Len(out.video), j \in 1..Len(out.video) :
            i < j => out.picked[i].bucket > out.picked[j].bucket

-----------------------------------------------------------------------------
(* transform_ytdlp_result on formats whose heights are no target height.   *)

\* video formats of heights 500 and 900, with and without audio, a format at
\* the target height 720 and an audio-only format
FallbackFormats ==
    {[url |-> VideoUrl, vcodec |-> "avc1", acodec |-> "none", height |-> 500, width |-> 888],
     [url |-> VideoUrl, vcodec |-> "vp9", acodec |-> "none", height |-> 900, width |-> 1600],
     [url |-> VideoUrl, vcodec |-> "avc1", acodec |-> "mp4a", height |-> 900, width |-> 1600],
     [url |-> VideoUrl, vcodec |-> "avc1", acodec |-> "mp4a", height |-> 720, width |-> 1280],
     [url |-> AudioUrl, vcodec |-> "none", acodec |-> "mp4a", abr |-> 128]}

FallbackInfos ==
    {[formats |-> f, title |-> "clip", id |-> "abc"] : f \in SeqsUpTo(FallbackFormats, MaxFormats)}
    \cup {[formats |-> f, url |-> VideoUrl, title |-> "clip"] :
             f \in SeqsUpTo(FallbackFormats, 1)}

InitFallback ==
    /\ formats = <<>>
    /\ target_heights = FormatsModule.TARGET_HEIGHTS
    /\ height_tolerance = 10
    /\ max_progressive_height = 720
    /\ include_hls = FALSE
    /\ target_bitrate = 128
    /\ pc = "start"
    /\ out = NoOutput
    /\ module_state = FormatsModule
    /\ calls = <<>>
    /\ request \in [url : {"clips.twitch.tv/c", "example.com/video.mp4", "soundcloud.com/t"},
                    info : FallbackInfos]
    /\ tasks = <<>>

NextFallback == CallTransformYtdlpResult

SpecFallback == InitFallback /\ [][NextFallback]_vars

\* no video format of the request has a height among the target heights
NoHeightOnTarget ==
    \A i \in 1..Len(request.info.formats) :
        formats_youtube_category(request.info.formats[i]) \in {"progressive", "video"}
            => \A t \in 1..Len(FormatsModule.TARGET_HEIGHTS) :
                   FormatsModule.TARGET_HEIGHTS[t] # Get(request.info.formats[i], "height", 0)

\* C23: when no video format's height is a target height, the video Item of
\* transform_ytdlp_result (with the services' process_video_formats) holds
\* exactly one Source, with hasAudio = true and needsMerge = false.
C23_FallbackSingleDefaultSource ==
    (pc = "transform_ytdlp_result" /\ NoHeightOnTarget) =>
        \A i \in 1..Len(out.items) :
            out.items[i].type = "video" =>
                /\ Len(out.items[i].sources) = 1
                /\ "hasAudio" \in DOMAIN out.items[i].sources[1]
                /\ out.items[i].sources[1].hasAudio
                /\ "needsMerge" \in DOMAIN out.items[i].sources[1]
                /\ ~out.items[i].sources[1].needsMerge

-----------------------------------------------------------------------------
(* process_youtube_formats of api/services/formats.py on several codecs    *)
(* at one height.                                                          *)

\* video-only formats of 720 in four codecs and of 1080 in two, progressive
\* formats of 720 and 1080, a video-only format in a codec outside the
\* list, a progressive format without a url and an audio-only format
MultiCodecFormats ==
    [url : {VideoUrl}, vcodec : {"avc1", "vp9", "av01", "hev1"}, acodec : {"none"},
     height : {720}, width : {1280}]
    \cup [url : {VideoUrl}, vcodec : {"avc1", "vp9"}, acodec : {"none"},
          height : {1080}, width : {1920}]
    \cup {[url |-> VideoUrl, vcodec |-> "avc1", acodec |-> "mp4a", height |-> 720,
           width |-> 1280],
          [url |-> VideoUrl, vcodec |-> "vp9", acodec |-> "opus", height |-> 1080,
           width |-> 1920],
          [url |-> VideoUrl, vcodec |-> "theora", acodec |-> "none", height |-> 720,
           width |-> 1280],
          [url |-> "", vcodec |-> "avc1", acodec |-> "mp4a", height |-> 720,
           width |-> 1280],
          [url |-> AudioUrl, vcodec |-> "none", acodec |-> "mp4a", abr |-> 128]}

InitMultiCodec ==
    /\ formats \in SeqsUpTo(MultiCodecFormats, MaxFormats)
    /\ target_heights = DEFAULT_TARGET_HEIGHTS
    /\ height_tolerance = 10
    /\ max_progressive_height = 720
    /\ include_hls = FALSE
    /\ target_bitrate = 128
    /\ pc = "start"
    /\ out = NoOutput
    /\ ServicesIdle

NextMultiCodec == CallFormatsProcessYoutubeFormats

SpecMultiCodec == InitMultiCodec /\ [][NextMultiCodec]_vars

\* the place of a codec name in the list H.264, VP9, AV1, HEVC; 0 outside it
ListedCodec(codec_name) ==
    CASE codec_name = "H.264" -> 1
      [] codec_name = "VP9"   -> 2
      [] codec_name = "AV1"   -> 3
      [] codec_name = "HEVC"  -> 4
      [] OTHER -> 0

\* the same for the vcodec of a format
ListedVcodec(vcodec) ==
    CASE vcodec = "avc1" -> 1
      [] vcodec = "vp9"  -> 2
      [] vcodec = "av01" -> 3
      [] vcodec = "hev1" -> 4
      [] OTHER -> 0

\* the input's progressive formats with a url, in input order
ProgressiveWithUrl ==
    SelectSeq(formats, LAMBDA f : f.url # "" /\ f.vcodec # "none" /\ f.acodec # "none")

\* the (height, codec) pairs the video-only formats give, the H.264 pair
\* left out at a height a progressive format has
ExpectedPairs ==
    {<<formats[i].height, ListedVcodec(formats[i].vcodec)>> :
        i \in {j \in 1..Len(formats) :
                 /\ formats[j].url # "" /\ formats[j].vcodec # "none"
                 /\ formats[j].acodec = "none"
                 /\ ListedVcodec(formats[j].vcodec) # 0
                 /\ ~(/\ formats[j].vcodec = "avc1"
                      /\ \E p \in 1..Len(ProgressiveWithUrl) :
                            ProgressiveWithUrl[p].height = formats[j].height)}}

\* C24: process_youtube_formats (api/services/formats.py) returns one Source
\* per progressive format with a url, in input order, then exactly one
\* Source per (height, codec) pair of the video-only formats for the codecs
\* H.264, VP9, AV1, HEVC, heights descending and codecs in that order within
\* a height, the H.264 pair alone left out at a height a progressive format
\* has; each carries its height's label.
C24_OneSourcePerHeightAndCodec ==
    pc = "formats_process_youtube_formats" =>
        LET n == Len(ProgressiveWithUrl)
            pair(i) == <<out.picked[i].bucket, ListedCodec(out.video[i].codec)>>
        IN  /\ Len(out.video) = n + Cardinality(ExpectedPairs)
            /\ \A i \in 1..n :
                  /\ out.video[i].format = "progressive"
                  /\ out.video[i].hasAudio
                  /\ out.picked[i].bucket = ProgressiveWithUrl[i].height
                  /\ ListedCodec(out.video[i].codec) = ListedVcodec(ProgressiveWithUrl[i].vcodec)
            /\ \A i \in (n + 1)..Len(out.video) :
                  /\ pair(i) \in ExpectedPairs
                  /\ out.video[i].needsMerge
                  /\ out.video[i].quality = ToString(out.picked[i].bucket) \o "p"
                  /\ \A j \in (i + 1)..Len(out.video) :
                        \/ pair(i)[1] > pair(j)[1]
                        \/ pair(i)[1] = pair(j)[1] /\ pair(i)[2] < pair(j)[2]

\* a progressive H.264 format and video-only H.264 and VP9 formats, all of
\* 720: the progressive Source and the VP9 Source are returned, both 720p
C24_Witness ==
    /\ pc = "formats_process_youtube_formats"
    /\ Len(formats) = 3
    /\ \A i \in 1..3 : Get(formats[i], "height", 0) = 720 /\ formats[i].url # ""
    /\ formats[1].vcodec = "vp9" /\ formats[1].acodec = "none"
    /\ formats[2].vcodec = "avc1" /\ formats[2].acodec = "none"
    /\ formats[3].vcodec = "avc1" /\ formats[3].acodec = "mp4a"
    /\ Len(out.video) = 2
    /\ out.video[1].codec = "H.264" /\ out.video[1].format = "progressive"
    /\ out.video[2].codec = "VP9" /\ out.video[2].format = "dash"
    /\ out.video[1].quality = "720p" /\ out.video[2].quality = "720p"

-----------------------------------------------------------------------------
(* api/services/transforms.py: transform_nsfw_video_result, with the pool   *)
(* of resolve_media_urls_parallel.                                          *)

\* urls_to_resolve: src.get("url") of every source, items in order
RECURSIVE nsfw_urls_to_resolve(_)
nsfw_urls_to_resolve(items) ==
    IF items = <<>> THEN <<>>
    ELSE Map(Head(items).sources, LAMBDA src : src.url)
         \o nsfw_urls_to_resolve(Tail(items))

\* the value of cursor when the loop reaches the item at position i
RECURSIVE nsfw_cursor(_, _)
nsfw_cursor(items, i) ==
    IF i <= 1 THEN 0 ELSE nsfw_cursor(items, i - 1) + Len(items[i - 1].sources)

\* mutant of nsfw_remap: cursor starts again at 0 for every item
nsfw_remap_cursor_per_item(items, resolved) ==
    [i \in 1..Len(items) |->
        [items[i] EXCEPT !.sources =
            [j \in 1..Len(items[i].sources) |->
                [items[i].sources[j] EXCEPT !.url = resolved[j]]]]]

\* lines 133-137: src["url"] = resolved[cursor]; cursor += 1
nsfw_remap(items, resolved) ==
    [i \in 1..Len(items) |->
        [items[i] EXCEPT !.sources =
            [j \in 1..Len(items[i].sources) |->
                [items[i].sources[j] EXCEPT !.url = resolved[nsfw_cursor(items, i) + j]]]]]

\* formats whose urls match the wrapper patterns, one that does not, and an
\* audio-only format behind a wrapper url
NsfwFormats ==
    {[url |-> "rule34video.com/get_file/1", vcodec |-> "avc1", acodec |-> "mp4a",
      height |-> 720, width |-> 1280],
     [url |-> "eporner.com/v/redirect", vcodec |-> "avc1", acodec |-> "none",
      height |-> 1080, width |-> 1920],
     [url |-> "example.com/video.mp4", vcodec |-> "avc1", acodec |-> "mp4a",
      height |-> 480, width |-> 854],
     [url |-> "rule34video.com/get_file/1", vcodec |-> "none", acodec |-> "mp4a",
      abr |-> 128]}

NsfwInfos ==
    {[formats |-> f, title |-> "clip"] : f \in SeqsUpTo(NsfwFormats, MaxFormats)}
    \cup {[url |-> "eporner.com/v/redirect", title |-> "clip"]}

InitNsfw ==
    /\ formats = <<>>
    /\ target_heights = FormatsModule.TARGET_HEIGHTS
    /\ height_tolerance = 10
    /\ max_progressive_height = 720
    /\ include_hls = FALSE
    /\ target_bitrate = 128
    /\ pc = "start"
    /\ out = NoOutput
    /\ module_state = FormatsModule
    /\ calls = <<>>
    /\ request \in [url : {"rule34video.com/v/1", "eporner.com/v/1"}, info : NsfwInfos]
    /\ tasks = <<>>

\* line 122: result = transform_ytdlp_result(info, original_url), kept in
\* the frame
NsfwCallTransform ==
    /\ pc = "start"
    /\ request' = [result |-> transform_ytdlp_result(request.info, request.url)] @@ request
    /\ pc' = "result"
    /\ UNCHANGED <<formats, target_heights, height_tolerance, max_progressive_height,
                   include_hls, target_bitrate, out, module_state, calls, tasks>>

\* the frame once urls_to_resolve is built: the resolver's result list
\* starts as a copy of it
nsfw_frame(frame, urls) ==
    [urls_to_resolve |-> urls, resolved |-> urls] @@ frame

\* lines 123-131 and resolve_media_urls_parallel up to the submissions
NsfwSubmit ==
    /\ pc = "result"
    /\ IF ~Get(request.result, "success", FALSE)
       THEN /\ out' = request.result
            /\ pc' = "transform_nsfw_video_result"
            /\ UNCHANGED <<request, tasks>>
       ELSE /\ request' = nsfw_frame(request,
                               nsfw_urls_to_resolve(Get(request.result, "items", <<>>)))
            /\ tasks' = resolver_future_map(request'.urls_to_resolve)
            /\ pc' = IF tasks' = <<>> THEN "remap" ELSE "nsfw_as_completed"
            /\ UNCHANGED out
    /\ UNCHANGED <<formats, target_heights, height_tolerance, max_progressive_height,
                   include_hls, target_bitrate, module_state, calls>>

\* one iteration of the resolver's loop over as_completed(future_map)
NsfwCollect(k) ==
    /\ pc = "nsfw_as_completed"
    /\ tasks[k].state \in {"finished", "raised"}
    /\ ~tasks[k].collected
    /\ request' = [request EXCEPT !.resolved =
                      resolver_store(@, request.urls_to_resolve, tasks, k)]
    /\ tasks' = [tasks EXCEPT ![k].collected = TRUE]
    /\ UNCHANGED <<formats, target_heights, height_tolerance, max_progressive_height,
                   include_hls, target_bitrate, pc, out, module_state, calls>>

\* resolve_media_urls_parallel returns
NsfwResolved ==
    /\ pc = "nsfw_as_completed"
    /\ \A k \in 1..Len(tasks) : tasks[k].collected
    /\ pc' = "remap"
    /\ UNCHANGED <<formats, target_heights, height_tolerance, max_progressive_height,
                   include_hls, target_bitrate, out, module_state, calls, request, tasks>>

\* lines 132-140: the urls are written back and result is returned
NsfwRemap ==
    /\ pc = "remap"
    /\ out' = [request.result EXCEPT !.items = nsfw_remap(@, request.resolved)]
    /\ pc' = "transform_nsfw_video_result"
    /\ UNCHANGED <<formats, target_heights, height_tolerance, max_progressive_height,
                   include_hls, target_bitrate, module_state, calls, request, tasks>>

NextNsfw ==
    \/ NsfwCallTransform
    \/ NsfwSubmit
    \/ \E k \in 1..Len(tasks) : WorkerStart(k) \/ WorkerFinish(k) \/ NsfwCollect(k)
    \/ NsfwResolved
    \/ NsfwRemap

SpecNsfw == InitNsfw /\ [][NextNsfw]_vars

\* what resolving `url` can give: resolve_media_url for a response of the
\* HTTP client or an error, the url itself when the task raised
ResolutionsOf(url) ==
    {resolve_media_url(url, response) : response \in ResolverResponses(url) \cup {HttpError}}
    \cup {url}

\* the item has the fields of `base`, and each of its sources the fields of
\* the source of `base` at the same place, except url, which is a resolution
\* of that source's own url
SameButResolved(item, base) ==
    /\ DOMAIN item = DOMAIN base
    /\ \A f \in DOMAIN item \ {"sources"} : item[f] = base[f]
    /\ Len(item.sources) = Len(base.sources)
    /\ \A j \in 1..Len(base.sources) :
          /\ DOMAIN item.sources[j] = DOMAIN base.sources[j]
          /\ \A f \in DOMAIN base.sources[j] \ {"url"} :
                item.sources[j][f] = base.sources[j][f]
          /\ item.sources[j].url \in ResolutionsOf(base.sources[j].url)

\* the whole response against transform_ytdlp_result's
ResponseSameButResolved(response, base) ==
    /\ DOMAIN response = DOMAIN base
    /\ \A f \in DOMAIN base \ {"items"} : response[f] = base[f]
    /\ Len(response.items) = Len(base.items)
    /\ \A i \in 1..Len(base.items) : SameButResolved(response.items[i], base.items[i])

\* C25: transform_nsfw_video_result returns what transform_ytdlp_result
\* returns on the same input, with the same Items and Sources in the same
\* order and every field but url unchanged, the k-th Source holding the
\* resolution of its own original url: the url itself when no wrapper
\* pattern matches or the task failed, else what its own task returned.
C25_PositionalRemapping ==
    pc = "transform_nsfw_video_result" =>
        /\ ResponseSameButResolved(out, request.result)
        /\ request.result = transform_ytdlp_result(request.info, request.url)
        /\ \A k \in 1..Len(tasks) :
              /\ tasks[k].url = request.urls_to_resolve[tasks[k].idx]
              /\ nsfw_urls_to_resolve(out.items)[tasks[k].idx] =
                    IF tasks[k].state = "raised" THEN tasks[k].url ELSE tasks[k].value

\* a video Item whose first Source and an audio Item whose Source sit behind
\* the same wrapper url: the first is resolved, the second Source keeps its
\* plain url and the audio Source, its request having failed, its wrapper url
C25_Witness ==
    /\ pc = "transform_nsfw_video_result"
    /\ Len(out.items) = 2
    /\ Len(out.items[1].sources) = 2
    /\ request.urls_to_resolve = <<"rule34video.com/get_file/1", "example.com/video.mp4",
                                   "rule34video.com/get_file/1">>
    /\ nsfw_urls_to_resolve(out.items) = <<"cdn.example/1.mp4", "example.com/video.mp4",
                                           "rule34video.com/get_file/1">>

-----------------------------------------------------------------------------
(* api/services/formats.py: normalize_codec_name and                        *)
(* normalize_audio_codec_name called on one token.                          *)

\* codec tokens in both cases, with and without a dot, the empty token and
\* "none"
CodecTokens ==
    {"avc1", "H264", "h.264", "H.264", "vp9", "VP9", "vp09", "av01", "AV1",
     "hevc", "HEVC", "h265", "h.265", "hev1", "hvc1", "theora",
     "mp4a", "AAC", "opus", "Opus", "mp3", "mpeg", "vorbis", "flac", "pcm",
     "", "none"}

\* no call made yet
NotCalled == "not called"

InitNormalizer ==
    /\ formats = <<>>
    /\ target_heights = FormatsModule.TARGET_HEIGHTS
    /\ height_tolerance = 10
    /\ max_progressive_height = 720
    /\ include_hls = FALSE
    /\ target_bitrate = 128
    /\ pc = "start"
    /\ out = [video |-> NotCalled, audio |-> NotCalled]
    /\ module_state = FormatsModule
    /\ calls = <<>>
    /\ request \in CodecTokens
    /\ tasks = <<>>

CallNormalizeCodecName ==
    /\ out.video = NotCalled
    /\ out' = [out EXCEPT !.video = formats_normalize_codec_name(request)]
    /\ pc' = "normalized"
    /\ UNCHANGED <<formats, target_heights, height_tolerance, max_progressive_height,
                   include_hls, target_bitrate, module_state, calls, request, tasks>>

CallNormalizeAudioCodecName ==
    /\ out.audio = NotCalled
    /\ out' = [out EXCEPT !.audio = formats_normalize_audio_codec_name(request)]
    /\ pc' = "normalized"
    /\ UNCHANGED <<formats, target_heights, height_tolerance, max_progressive_height,
                   include_hls, target_bitrate, module_state, calls, request, tasks>>

NextNormalizer == CallNormalizeCodecName \/ CallNormalizeAudioCodecName

SpecNormalizer == InitNormalizer /\ [][NextNormalizer]_vars

\* the lower-cased token contains one of the words
HasAny(token, words) ==
    \E w \in words : Contains(Lower(Chars(token)), Chars(w))

\* the video rules in their order, the first match winning; "" when none
\* matches
VideoRule(token) ==
    IF HasAny(token, {"avc", "h264", "h.264"}) THEN "H.264"
    ELSE IF HasAny(token, {"vp9", "vp09"}) THEN "VP9"
    ELSE IF HasAny(token, {"av01", "av1"}) THEN "AV1"
    ELSE IF HasAny(token, {"hevc", "h265", "h.265", "hev1", "hvc1"}) THEN "HEVC"
    ELSE ""

\* the audio rules in their order
AudioRule(token) ==
    IF HasAny(token, {"mp4a", "aac"}) THEN "AAC"
    ELSE IF HasAny(token, {"opus"}) THEN "Opus"
    ELSE IF HasAny(token, {"mp3", "mpeg"}) THEN "MP3"
    ELSE IF HasAny(token, {"vorbis"}) THEN "Vorbis"
    ELSE IF HasAny(token, {"flac"}) THEN "FLAC"
    ELSE ""

\* C26: normalize_codec_name and normalize_audio_codec_name of
\* api/services/formats.py try their rules in fixed order on the lower-cased
\* token, the first match winning (avc, h264, h.264 -> H.264; vp9, vp09 ->
\* VP9; av01, av1 -> AV1; hevc, h265, h.265, hev1, hvc1 -> HEVC; mp4a, aac ->
\* AAC; opus -> Opus; mp3, mpeg -> MP3; vorbis -> Vorbis; flac -> FLAC), and
\* an empty or "none" token gives an empty codec.
C26_NormalizerRules ==
    /\ out.video # NotCalled =>
          /\ request \in {"", "none"} => out.video = ""
          /\ VideoRule(request) # "" => out.video = VideoRule(request)
    /\ out.audio # NotCalled =>
          /\ request \in {"", "none"} => out.audio = ""
          /\ AudioRule(request) # "" => out.audio = AudioRule(request)

-----------------------------------------------------------------------------
(* The temporary cookie file of extract_with_ytdlp, under SpecYtdlp.       *)

\* the call created its cookie file / removed it
CookieFileCreated ==
    \E i \in 1..Len(calls) :
        calls[i].fn = "NamedTemporaryFile" /\ calls[i].outcome = "returned"

CookieFileRemoved ==
    \E i \in 1..Len(calls) : calls[i].fn = "os.unlink" /\ calls[i].outcome = "returned"

\* C27: when a call of extract_with_ytdlp made with a cookie returns, the
\* temporary cookie file it created no longer exists, on every path:
\* extraction succeeded, extraction failed, the transformer failed, the
\* conversion or the writing of the cookie failed.
C27_CookieFileGoneOnReturn ==
    (pc = "extract_with_ytdlp" /\ request.cookie # "" /\ CookieFileCreated)
        => CookieFileRemoved

-----------------------------------------------------------------------------
(* api/services/gallery_dl.py: two calls of extract_with_gallery_dl in two   *)
(* threads of the server.  module_state is the configuration dict of the     *)
(* gallery_dl.config module, one per process; tasks holds the two calls.     *)

\* gdl_config.set(("extractor",), key, value) on the extractor section
gdl_config_set(config, key, value) == (key :> value) @@ config

\* the cookies the extractor of a job reads from the configuration, None
\* when the key is absent
gdl_config_cookies(config) == Get(config, "cookies", None)

\* _get_transformer(platform) of gallery_dl.py
gallery_get_transformer(platform) ==
    CASE platform = "pinterest" -> "transform_pinterest_result"
      [] platform = "weibo"     -> "transform_weibo_result"
      [] OTHER                  -> "transform_gallery_dl_result"

\* the cookies of the two requests: none, or one of two values
GdlCookies == {"", "sid=1", "sid=2"}

GdlUrls == {"pinterest.com/pin/1", "pixiv.net/a"}

InitGalleryDl ==
    /\ formats = <<>>
    /\ target_heights = FormatsModule.TARGET_HEIGHTS
    /\ height_tolerance = 10
    /\ max_progressive_height = 720
    /\ include_hls = FALSE
    /\ target_bitrate = 128
    /\ pc = "start"
    /\ out = NoOutput
    /\ module_state = <<>>
    /\ calls = <<>>
    /\ request \in GdlUrls
    /\ tasks \in [1..2 -> [cookie : GdlCookies, at : {"clear"}, ran_with : {None},
                           response : {NoOutput}]]

\* line 37: gdl_config.clear()
GdlClear(t) ==
    /\ tasks[t].at = "clear"
    /\ module_state' = <<>>
    /\ tasks' = [tasks EXCEPT ![t].at = "set"]
    /\ UNCHANGED <<formats, target_heights, height_tolerance, max_progressive_height,
                   include_hls, target_bitrate, pc, out, calls, request>>

\* lines 38-39: timeout and user-agent are set
GdlSet(t) ==
    /\ tasks[t].at = "set"
    /\ module_state' = gdl_config_set(gdl_config_set(module_state, "timeout", 30),
                                      "user-agent", "DEFAULT_USER_AGENT")
    /\ tasks' = [tasks EXCEPT ![t].at = IF tasks[t].cookie # "" THEN "set_cookies"
                                        ELSE "run"]
    /\ UNCHANGED <<formats, target_heights, height_tolerance, max_progressive_height,
                   include_hls, target_bitrate, pc, out, calls, request>>

\* lines 40-41: if cookie: gdl_config.set(("extractor",), "cookies", cookie)
GdlSetCookies(t) ==
    /\ tasks[t].at = "set_cookies"
    /\ module_state' = gdl_config_set(module_state, "cookies", tasks[t].cookie)
    /\ tasks' = [tasks EXCEPT ![t].at = "run"]
    /\ UNCHANGED <<formats, target_heights, height_tolerance, max_progressive_height,
                   include_hls, target_bitrate, pc, out, calls, request>>

\* lines 54-55: the job is built and run; its extractor reads the cookies of
\* the configuration as it is then
GdlRun(t) ==
    /\ tasks[t].at = "run"
    /\ tasks' = [tasks EXCEPT ![t].at = "results",
                              ![t].ran_with = gdl_config_cookies(module_state)]
    /\ UNCHANGED <<formats, target_heights, height_tolerance, max_progressive_height,
                   include_hls, target_bitrate, pc, out, module_state, calls, request>>

\* lines 57-65: no result, a transformer's response, or an exception of the
\* job turned into an error response
GdlReturn(t) ==
    /\ tasks[t].at = "results"
    /\ \E outcome \in {"empty", "results", "raised"} :
         tasks' = [tasks EXCEPT
             ![t].at = "extract_with_gallery_dl",
             ![t].response =
                 CASE outcome = "empty" ->
                          create_error_response("NO_MEDIA_FOUND", "No media found from gallery-dl")
                   [] outcome = "raised" ->
                          create_error_response(detect_error_code("boom"), "boom")
                   [] OTHER ->
                          [transformer |-> gallery_get_transformer(
                               transforms_platform_or_unknown(detect_platform(request)))]]
    /\ UNCHANGED <<formats, target_heights, height_tolerance, max_progressive_height,
                   include_hls, target_bitrate, pc, out, module_state, calls, request>>

NextGalleryDl ==
    \E t \in 1..2 : GdlClear(t) \/ GdlSet(t) \/ GdlSetCookies(t) \/ GdlRun(t) \/ GdlReturn(t)

SpecGalleryDl == InitGalleryDl /\ [][NextGalleryDl]_vars

\* C28: for every interleaving of two calls of extract_with_gallery_dl, the
\* job of each call runs with the cookie of its own request, or with none if
\* the request had none: never with the other call's cookie, never without
\* its own.
C28_OwnCookieOnly ==
    \A t \in 1..2 :
        tasks[t].at \in {"results", "extract_with_gallery_dl"} =>
            tasks[t].ran_with = IF tasks[t].cookie # "" THEN tasks[t].cookie ELSE None

-----------------------------------------------------------------------------
(* api/services/transforms.py: transform_bandcamp_result.                   *)

\* _extract_bandcamp_audio_sources(track_info): process_audio_formats applied
\* to the audio Sources process_video_formats returns
transforms_extract_bandcamp_audio_sources(track_info) ==
    formats_process_audio_formats(
        formats_process_video_formats(Get(track_info, "formats", <<>>),
                                      FormatsModule.TARGET_HEIGHTS,
                                      FormatsModule.CODEC_PRIORITY).audio,
        128)

\* the loop over enumerate(entries), lines 102-111
transforms_bandcamp_items(entries) ==
    [idx \in 1..Len(entries) |->
        [index   |-> idx - 1,
         type    |-> "audio",
         title   |-> Get(entries[idx], "title", None),
         sources |-> transforms_extract_bandcamp_audio_sources(entries[idx])]]

\* transform_bandcamp_result(info, original_url)
transform_bandcamp_result(info, original_url) ==
    IF Get(info, "entries", <<>>) # <<>>
    THEN transforms_base_success("bandcamp", "audio", info,
                                 transforms_bandcamp_items(info.entries))
    ELSE transform_ytdlp_result(info, original_url)

\* audio-only formats in three codecs, one without a url, and a video format
BandcampFormats ==
    {[url |-> AudioUrl, vcodec |-> "none", acodec |-> "mp3", abr |-> 128],
     [url |-> AudioUrl, vcodec |-> "none", acodec |-> "aac", abr |-> 96],
     [url |-> AudioUrl, vcodec |-> "none", acodec |-> "flac", abr |-> 900],
     [url |-> "", vcodec |-> "none", acodec |-> "mp3", abr |-> 128],
     [url |-> VideoUrl, vcodec |-> "avc1", acodec |-> "mp4a", height |-> 720, width |-> 1280]}

\* the entries of an album
BandcampEntries ==
    {[title |-> "track", formats |-> f] : f \in SeqsUpTo(BandcampFormats, MaxAudio - 1)}

\* an album of up to MaxEntries entries; a single track
BandcampInfos ==
    {[title |-> "album", entries |-> e] : e \in SeqsUpTo(BandcampEntries, MaxEntries)}
    \cup {[title |-> "track", formats |-> f] : f \in SeqsUpTo(BandcampFormats, 1)}

InitBandcamp ==
    /\ formats = <<>>
    /\ target_heights = FormatsModule.TARGET_HEIGHTS
    /\ height_tolerance = 10
    /\ max_progressive_height = 720
    /\ include_hls = FALSE
    /\ target_bitrate = 128
    /\ pc = "start"
    /\ out = NoOutput
    /\ module_state = FormatsModule
    /\ calls = <<>>
    /\ request \in [url : {"x.bandcamp.com/album/a"}, info : BandcampInfos]
    /\ tasks = <<>>

CallTransformBandcampResult ==
    /\ pc = "start"
    /\ out' = transform_bandcamp_result(request.info, request.url)
    /\ pc' = "transform_bandcamp_result"
    /\ UNCHANGED <<formats, target_heights, height_tolerance, max_progressive_height,
                   include_hls, target_bitrate, module_state, calls, request, tasks>>

NextBandcamp == CallTransformBandcampResult

SpecBandcamp == InitBandcamp /\ [][NextBandcamp]_vars

\* the entry's audio-only formats that have a url and a codec among AAC,
\* Opus, MP3, Vorbis, FLAC
BandcampAudioOf(entry) ==
    SelectSeq(entry.formats, LAMBDA f :
        /\ f.url # "" /\ f.vcodec = "none"
        /\ f.acodec \in {"aac", "mp4a", "opus", "mp3", "vorbis", "flac"})

\* C29: for an album entry with at least one audio-only format that has a
\* url and a codec among AAC, Opus, MP3, Vorbis, FLAC, the Item's sources,
\* which _extract_bandcamp_audio_sources returns, are not empty and are what
\* process_audio_formats selects from those formats.
C29_BandcampSourcesKept ==
    (pc = "transform_bandcamp_result" /\ Get(request.info, "entries", <<>>) # <<>>) =>
        \A i \in 1..Len(request.info.entries) :
            BandcampAudioOf(request.info.entries[i]) # <<>> =>
                /\ out.items[i].sources # <<>>
                /\ out.items[i].sources =
                      formats_process_audio_formats(
                          BandcampAudioOf(request.info.entries[i]), 128)

-----------------------------------------------------------------------------
(* api/services/transforms.py: transform_gallery_dl_result.                 *)

\* text.lower().endswith(suffixes)
LowerEndsWith(text, suffixes) ==
    \E s \in suffixes : EndsWith(Lower(Chars(text)), Chars(s))

\* result.get("url") or result.get("file_url") or result.get("source"),
\* "" standing for a value that is not truthy
transforms_gallery_url(result) ==
    IF Get(result, "url", "") # "" THEN result.url
    ELSE IF Get(result, "file_url", "") # "" THEN result.file_url
    ELSE Get(result, "source", "")

\* _get_valid_thumbnail(metadata, media_url)
transforms_get_valid_thumbnail(metadata, media_url) ==
    IF Get(metadata, "thumbnail", "") # "" THEN metadata.thumbnail
    ELSE IF Get(metadata, "thumb", "") # "" THEN metadata.thumb
    ELSE IF LowerEndsWith(media_url, {".jpg", ".jpeg", ".png", ".webp"}) THEN media_url
    ELSE None

\* the item appended for the result at position idx (from 0)
transforms_gallery_item(idx, result, url) ==
    [index     |-> idx,
     type      |-> IF LowerEndsWith(url, {".mp4", ".webm", ".m3u8"}) THEN "video"
                   ELSE "image",
     thumbnail |-> transforms_get_valid_thumbnail(result, url),
     sources   |-> <<[quality |-> "original",
                      url     |-> url,
                      mime    |-> IF LowerEndsWith(url, {".mp4", ".webm", ".m3u8"})
                                  THEN "video/mp4" ELSE "image/jpeg"]>>]

\* the loop over enumerate(results), lines 156-174: a result without url is
\* skipped
RECURSIVE transforms_gallery_items(_, _)
transforms_gallery_items(results, idx) ==
    IF idx > Len(results) THEN <<>>
    ELSE (IF transforms_gallery_url(results[idx]) = "" THEN <<>>
          ELSE <<transforms_gallery_item(idx - 1, results[idx],
                                         transforms_gallery_url(results[idx]))>>)
         \o transforms_gallery_items(results, idx + 1)

\* lines 176-184: the response built from items
transforms_gallery_response(platform, items) ==
    IF items = <<>>
    THEN [success |-> FALSE,
          error |-> [code |-> "NO_MEDIA_FOUND", message |-> "No media found"]]
    ELSE [success     |-> TRUE,
          platform    |-> platform,
          contentType |-> IF Len(items) > 1 THEN "gallery" ELSE items[1].type,
          items       |-> items]

\* transform_gallery_dl_result(results, original_url)
transform_gallery_dl_result(results, original_url) ==
    transforms_gallery_response(
        transforms_platform_or_unknown(detect_platform(original_url)),
        transforms_gallery_items(results, 1))

\* what the job collects: an image, a video under file_url, a result with an
\* empty url and a source, a result with a thumbnail, a result without url
GalleryResults ==
    {[url |-> "i.jpg"],
     [file_url |-> "V.MP4"],
     [url |-> "", source |-> "i.jpg"],
     [url |-> "page", thumb |-> "t.jpg"],
     [description |-> "text"]}

InitGallery ==
    /\ formats = <<>>
    /\ target_heights = FormatsModule.TARGET_HEIGHTS
    /\ height_tolerance = 10
    /\ max_progressive_height = 720
    /\ include_hls = FALSE
    /\ target_bitrate = 128
    /\ pc = "start"
    /\ out = NoOutput
    /\ module_state = FormatsModule
    /\ calls = <<>>
    /\ request \in [url : GdlUrls, results : SeqsUpTo(GalleryResults, MaxEntries)]
    /\ tasks = <<>>

CallTransformGalleryDlResult ==
    /\ pc = "start"
    /\ out' = transform_gallery_dl_result(request.results, request.url)
    /\ pc' = "transform_gallery_dl_result"
    /\ UNCHANGED <<formats, target_heights, height_tolerance, max_progressive_height,
                   include_hls, target_bitrate, module_state, calls, request, tasks>>

NextGallery == CallTransformGalleryDlResult

SpecGallery == InitGallery /\ [][NextGallery]_vars

\* C30: in a success envelope of transform_gallery_dl_result (as in those of
\* transform_ytdlp_result and transform_bandcamp_result) the index of each
\* Item is its position in items, from 0, without gaps or duplicates, also
\* when results without a url were skipped.
C30_IndexIsPosition ==
    (pc = "transform_gallery_dl_result" /\ out.success) =>
        \A i \in 1..Len(out.items) : out.items[i].index = i - 1

====
